---- MODULE Spec2Model ----
(***************************************************************************)
(* MonthWise: the local persistence and consistency layer.                 *)
(*                                                                         *)
(*   Spec        the storage engine: getDatabase / closeDatabase and the   *)
(*               initialization task, interleaved at their await points    *)
(*   SpecMig     the migration runner, run twice on a legacy schema        *)
(*   SpecBackup  exportAllData / importData on a populated dataset         *)
(*   SpecExpense the expense repository's write operations                 *)
(***************************************************************************)
EXTENDS Integers, Sequences, FiniteSets, TLC

(***************************************************************************)
(* Bounds of the model                                                     *)
(***************************************************************************)
\* initializations (physical opens) that may be started in one run
MaxInits == 2
\* concurrent callers of getDatabase
NCallers == 2
\* engine errors that may be injected in one run
MaxFailures == 1
\* how many schema versions beyond this build's a database file may carry
LaterBuilds == 1

(***************************************************************************)
(* Program constants                                                       *)
(***************************************************************************)
SCHEMA_VERSION == 5

VARIABLES
    \* connection.ts module state
    database,       \* the cached handle, 0 for null
    initPromise,    \* the shared in-flight promise, 0 for null
    \* the runtime around it
    tasks,          \* per promise: the initialization IIFE's position and locals
    openCount,      \* openDatabaseAsync invocations so far (handle ids are 1..openCount)
    initRuns,       \* initializeDatabase invocations so far
    callers,        \* per caller of getDatabase: what it was returned
    closePc,        \* closeDatabase: "idle", or "closing" while awaiting closeAsync
    closingHandle,  \* the handle closeDatabase is closing
    closeInvoked,   \* handles on which closeAsync has been invoked
    closeDone,      \* handles whose closeDatabase call has completed
    failures,       \* engine errors injected so far
    \* the database file
    storedVersion,  \* app_settings row 'schema_version': a decimal string, or NoRow
    \* the migration runner, run on a database of its own
    mdb,            \* tables, their columns, rows and indexes
    migRun,         \* which run of runMigrations this is: 1 or 2
    migPc,          \* the next migration of the run, 6 when the run has returned
    migSnap,        \* mdb as the first run left it
    migRaised,      \* the errors the engine has raised in the current run
    \* the data tables, as the repositories and the backup service see them
    store,          \* profiles, allowance_sources, categories, months, expenses
    \* exportAllData / importData
    bdoc,           \* the document handed to importData, parsed
    bsource,        \* "none", "export" (produced by exportAllData) or "file"
    bpc,            \* importData's position
    btodo,          \* rows of the current array not yet inserted
    bnow,           \* datetime('now') during the import
    bjournal,       \* the engine's rollback journal: the tables at BEGIN, if any
    bpre,           \* the tables before exportAllData / importData was called
    bresult,        \* what importData returned or threw
    bfailed,        \* whether a statement of the transaction has failed
    \* ExpenseRepository
    utask,          \* the update call in flight: position, arguments, locals
    ubefore,        \* the row as stored when update's UPDATE statement ran
    uother,         \* the statement another caller has run meanwhile, if any
    \* the repositories, called one call at a time
    rlast,          \* the last call: what, on which id, its outcome, the tables before
    rcalls,         \* calls made so far
    \* MonthRepository.getOrCreate
    gtasks,         \* per caller: position, row found, outcome
    \* ProfileRepository
    ptasks,         \* per caller of delete: position, id, count read, outcome
    pbefore,        \* the tables before the last DELETE FROM profiles
    \* CalculationService
    calcIn,         \* the arguments of the call
    calcOut,        \* what the call returned
    \* syncDefaultCategories and the category operations between two opens
    syn,            \* position of the open, the table it found, operations so far
    \* useAppStore
    app,            \* the store's state
    loads           \* the asynchronous store actions in flight

connVars == <<database, initPromise, tasks, openCount, initRuns, callers,
              closePc, closingHandle, closeInvoked, closeDone, failures,
              storedVersion>>

migVars == <<mdb, migRun, migPc, migSnap, migRaised>>

dataVars == <<store>>

bakVars == <<bdoc, bsource, bpc, btodo, bnow, bjournal, bpre, bresult, bfailed>>

expVars == <<utask, ubefore, uother>>

repVars == <<rlast, rcalls>>

monVars == <<gtasks>>

proVars == <<ptasks, pbefore>>

calVars == <<calcIn, calcOut>>

synVars == <<syn>>

appVars == <<app, loads>>

vars == <<connVars, migVars, dataVars, bakVars, expVars, repVars, monVars, proVars, calVars,
          synVars, appVars>>

(***************************************************************************)
(* Strings of decimal digits: Number.prototype.toString, parseInt(s, 10)   *)
(***************************************************************************)
NoRow == <<>>

RECURSIVE toString(_)
toString(n) ==
    IF n < 10 THEN <<n>> ELSE toString(n \div 10) \o <<n % 10>>

RECURSIVE parseInt(_)
parseInt(s) ==
    IF Len(s) = 1 THEN s[1]
    ELSE 10 * parseInt(SubSeq(s, 1, Len(s) - 1)) + s[Len(s)]

(***************************************************************************)
(* The initialization task: the async IIFE of getDatabase                  *)
(***************************************************************************)
Promises == 1..MaxInits
Callers == 1..NCallers

\* passed: the awaits of the task that have returned
NoTask == [pc |-> "none", db |-> 0, cur |-> 0, passed |-> {}]

Pending(p) == tasks[p].pc \notin {"none", "resolved", "rejected"}

\* connection.ts:32  if (database) return database;
AlreadyInitialized == database # 0

InitInProgress_Never == FALSE

\* connection.ts:37  if (initPromise) return initPromise;
InitInProgress == initPromise # 0

\* a step of the storage engine leaves the other specifications' state alone
ConnOnly == UNCHANGED <<migVars, dataVars, bakVars, expVars, repVars, monVars, proVars, calVars,
                        synVars, appVars>>

\* closedAtCall, invokedAtCall: the handles whose close had completed, and on
\* which closeAsync had been invoked, when the call was made
IdleCaller == [st |-> "idle", p |-> 0, h |-> 0, closedAtCall |-> {}, invokedAtCall |-> {}]

\* getDatabase, database already set: resolves with the cached handle
GetDatabaseCached(c) ==
    /\ callers[c].st = "idle"
    /\ AlreadyInitialized
    /\ callers' = [callers EXCEPT ![c] =
           [st |-> "waiting", p |-> 0, h |-> database, closedAtCall |-> closeDone,
            invokedAtCall |-> closeInvoked]]
    /\ UNCHANGED <<database, initPromise, tasks, openCount, initRuns, closePc,
                   closingHandle, closeInvoked, closeDone, failures, storedVersion>>
    /\ ConnOnly

\* getDatabase, initialization in flight: returns the shared promise
GetDatabaseJoin(c) ==
    /\ callers[c].st = "idle"
    /\ ~AlreadyInitialized
    /\ InitInProgress
    /\ callers' = [callers EXCEPT ![c] =
           [st |-> "waiting", p |-> initPromise, h |-> 0, closedAtCall |-> closeDone,
            invokedAtCall |-> closeInvoked]]
    /\ UNCHANGED <<database, initPromise, tasks, openCount, initRuns, closePc,
                   closingHandle, closeInvoked, closeDone, failures, storedVersion>>
    /\ ConnOnly

\* getDatabase, nothing cached: creates the promise; the IIFE runs up to its
\* first await, which invokes openDatabaseAsync
GetDatabaseStart(c) ==
    /\ callers[c].st = "idle"
    /\ ~AlreadyInitialized
    /\ ~InitInProgress
    /\ openCount < MaxInits
    /\ LET p == openCount + 1 IN
        /\ openCount' = p
        /\ tasks' = [tasks EXCEPT ![p] = [pc |-> "open", db |-> p, cur |-> 0, passed |-> {}]]
        /\ initPromise' = p
        /\ callers' = [callers EXCEPT ![c] =
               [st |-> "waiting", p |-> p, h |-> 0, closedAtCall |-> closeDone,
            invokedAtCall |-> closeInvoked]]
    /\ UNCHANGED <<database, initRuns, closePc, closingHandle, closeInvoked,
                   closeDone, failures, storedVersion>>
    /\ ConnOnly

\* the caller's await on what getDatabase returned
Deliver(c) ==
    /\ callers[c].st = "waiting"
    /\ LET p == callers[c].p IN
        \/ /\ p = 0
           /\ callers' = [callers EXCEPT ![c].st = "got"]
        \/ /\ p # 0
           /\ tasks[p].pc = "resolved"
           /\ callers' = [callers EXCEPT ![c].st = "got", ![c].h = tasks[p].db]
        \/ /\ p # 0
           /\ tasks[p].pc = "rejected"
           /\ callers' = [callers EXCEPT ![c].st = "failed"]
    /\ UNCHANGED <<database, initPromise, tasks, openCount, initRuns, closePc,
                   closingHandle, closeInvoked, closeDone, failures, storedVersion>>
    /\ ConnOnly

\* the caller is done with its result and may call again
Release(c) ==
    /\ callers[c].st \in {"got", "failed"}
    /\ callers' = [callers EXCEPT ![c] = IdleCaller]
    /\ UNCHANGED <<database, initPromise, tasks, openCount, initRuns, closePc,
                   closingHandle, closeInvoked, closeDone, failures, storedVersion>>
    /\ ConnOnly

NextPhase_WriteFirst(pc) ==
    CASE pc = "open"     -> "pragma"
      [] pc = "pragma"   -> "create"
      [] pc = "create"   -> "readver"
      [] pc = "readver"  -> "writever"
      [] pc = "writever" -> "migrate"
      [] pc = "migrate"  -> "sync"
      [] pc = "sync"     -> "publish"

\* the statement after the task's current await
NextPhase(pc) ==
    CASE pc = "open"     -> "pragma"
      [] pc = "pragma"   -> "create"
      [] pc = "create"   -> "readver"
      [] pc = "readver"  -> "migrate"
      [] pc = "migrate"  -> "writever"
      [] pc = "writever" -> "sync"
      [] pc = "sync"     -> "publish"

\* connection.ts:81-86  the stored version as initializeDatabase reads it
ReadVersion == IF storedVersion = NoRow THEN 0 ELSE parseInt(storedVersion)

WrittenVersion_Found(cur) == toString(cur)

\* connection.ts:97-100  INSERT OR REPLACE ... ('schema_version', SCHEMA_VERSION.toString())
WrittenVersion(cur) == toString(SCHEMA_VERSION)

\* an await of the task completes normally
InitStep(p) ==
    /\ tasks[p].pc \in {"open", "pragma", "create", "readver", "migrate", "writever", "sync"}
    /\ tasks' = [tasks EXCEPT ![p].pc = NextPhase(tasks[p].pc),
                              ![p].cur = IF tasks[p].pc = "readver" THEN ReadVersion
                                         ELSE tasks[p].cur,
                              ![p].passed = @ \cup {tasks[p].pc}]
    /\ initRuns' = IF tasks[p].pc = "open" THEN initRuns + 1 ELSE initRuns
    /\ storedVersion' = IF tasks[p].pc = "writever" THEN WrittenVersion(tasks[p].cur)
                        ELSE storedVersion
    /\ UNCHANGED <<database, initPromise, openCount, callers, closePc,
                   closingHandle, closeInvoked, closeDone, failures>>
    /\ ConnOnly

\* connection.ts:87-90  the version probe fails: caught, currentVersion = 0
InitProbeFails(p) ==
    /\ tasks[p].pc = "readver"
    /\ failures < MaxFailures
    /\ failures' = failures + 1
    /\ tasks' = [tasks EXCEPT ![p].pc = "migrate", ![p].cur = 0,
                              ![p].passed = @ \cup {"readver"}]
    /\ UNCHANGED <<database, initPromise, openCount, initRuns, callers, closePc,
                   closingHandle, closeInvoked, closeDone, storedVersion>>
    /\ ConnOnly

PromiseAfterFailure_Kept(p) == initPromise

\* connection.ts:48-51  catch: initPromise = null; throw error
PromiseAfterFailure(p) == 0

\* an await of the task rejects: open, pragma, table creation, migration,
\* version write or category sync
InitFails(p) ==
    /\ tasks[p].pc \in {"open", "pragma", "create", "migrate", "writever", "sync"}
    /\ failures < MaxFailures
    /\ failures' = failures + 1
    /\ tasks' = [tasks EXCEPT ![p].pc = "rejected"]
    /\ initPromise' = PromiseAfterFailure(p)
    /\ UNCHANGED <<database, openCount, initRuns, callers, closePc,
                   closingHandle, closeInvoked, closeDone, storedVersion>>
    /\ ConnOnly

\* connection.ts:46-47  database = db; return db
InitPublish(p) ==
    /\ tasks[p].pc = "publish"
    /\ database' = tasks[p].db
    /\ tasks' = [tasks EXCEPT ![p].pc = "resolved"]
    /\ UNCHANGED <<initPromise, openCount, initRuns, callers, closePc,
                   closingHandle, closeInvoked, closeDone, failures, storedVersion>>
    /\ ConnOnly

\* closeDatabase up to its await: database.closeAsync() is invoked
CloseBegin ==
    /\ closePc = "idle"
    /\ database # 0
    /\ closePc' = "closing"
    /\ closingHandle' = database
    /\ closeInvoked' = closeInvoked \cup {database}
    /\ UNCHANGED <<database, initPromise, tasks, openCount, initRuns, callers,
                   closeDone, failures, storedVersion>>
    /\ ConnOnly

PromiseAfterClose_Kept == initPromise

\* connection.ts:64  initPromise = null
PromiseAfterClose == 0

\* closeDatabase after its await: database = null; initPromise = null
CloseFinish ==
    /\ closePc = "closing"
    /\ database' = 0
    /\ initPromise' = PromiseAfterClose
    /\ closeDone' = closeDone \cup {closingHandle}
    /\ closePc' = "idle"
    /\ closingHandle' = 0
    /\ UNCHANGED <<tasks, openCount, initRuns, callers, closeInvoked, failures,
                   storedVersion>>
    /\ ConnOnly

InitConn ==
    /\ database = 0
    /\ initPromise = 0
    /\ tasks = [p \in Promises |-> NoTask]
    /\ openCount = 0
    /\ initRuns = 0
    /\ callers = [c \in Callers |-> IdleCaller]
    /\ closePc = "idle"
    /\ closingHandle = 0
    /\ closeInvoked = {}
    /\ closeDone = {}
    /\ failures = 0

\* the file found at first open: fresh, or left by the previous build, by this
\* build or by a later one
InitFile ==
    storedVersion \in {NoRow} \cup
        {toString(v) : v \in (SCHEMA_VERSION - 1)..(SCHEMA_VERSION + LaterBuilds)}

\* the migration runner's state while another specification runs
ParkedMig ==
    /\ mdb = 0
    /\ migRun = 0
    /\ migPc = 0
    /\ migSnap = 0
    /\ migRaised = {}

\* the data tables and the backup service while another specification runs
ParkedData == store = 0

ParkedBackup ==
    /\ bdoc = 0
    /\ bsource = "none"
    /\ bpc = [at |-> "idle", i |-> 0]
    /\ btodo = {}
    /\ bnow = 0
    /\ bjournal = {}
    /\ bpre = 0
    /\ bresult = "none"
    /\ bfailed = FALSE

\* the expense repository while another specification runs
ParkedExpense ==
    /\ utask = [pc |-> "idle"]
    /\ ubefore = {}
    /\ uother = "none"

\* the sequential repository session, getOrCreate, the profile repository and
\* the calculation service while another specification runs
ParkedRepo ==
    /\ rlast = [op |-> "none"]
    /\ rcalls = 0

ParkedMonth == gtasks = <<>>

ParkedProfile ==
    /\ ptasks = <<>>
    /\ pbefore = {}

ParkedCalc ==
    /\ calcIn = <<>>
    /\ calcOut = <<>>

\* the category synchronization while another specification runs
ParkedSync == syn = <<>>

\* the application store while another specification runs
ParkedApp ==
    /\ app = <<>>
    /\ loads = <<>>

ParkedServices ==
    /\ ParkedSync
    /\ ParkedApp
    /\ ParkedRepo
    /\ ParkedMonth
    /\ ParkedProfile
    /\ ParkedCalc

Init ==
    /\ InitConn
    /\ InitFile
    /\ ParkedMig
    /\ ParkedData
    /\ ParkedBackup
    /\ ParkedExpense
    /\ ParkedServices

Next ==
    \/ \E c \in Callers : GetDatabaseCached(c)
    \/ \E c \in Callers : GetDatabaseJoin(c)
    \/ \E c \in Callers : GetDatabaseStart(c)
    \/ \E c \in Callers : Deliver(c)
    \/ \E c \in Callers : Release(c)
    \/ \E p \in Promises : InitStep(p)
    \/ \E p \in Promises : InitProbeFails(p)
    \/ \E p \in Promises : InitFails(p)
    \/ \E p \in Promises : InitPublish(p)
    \/ CloseBegin
    \/ CloseFinish


Spec == Init /\ [][Next]_vars

(***************************************************************************)
(* The migration runner (migrations.ts) on a database of tables, columns,  *)
(* rows and indexes.  A row is a function from the table's columns to      *)
(* integers; NullValue stands for SQL NULL.                                *)
(***************************************************************************)
NullValue == 0 - 1

MigTables == {"profiles", "allowance_sources", "months", "expenses"}

\* PRAGMA table_info(t): the column names, none for a table that does not exist
TableInfo(db, t) == IF t \in db.tables THEN db.cols[t] ELSE {}

\* row r with column c added, holding the column's default
Extend(r, c, d) == [x \in (DOMAIN r) \cup {c} |-> IF x = c THEN d ELSE r[x]]

\* ALTER TABLE t ADD COLUMN c ... DEFAULT d
AlterAddColumn(db, t, c, d) ==
    IF t \notin db.tables THEN [db |-> db, err |-> "no such table"]
    ELSE IF c \in db.cols[t] THEN [db |-> db, err |-> "duplicate column"]
    ELSE [db |-> [db EXCEPT !.cols[t] = @ \cup {c},
                            !.rows[t] = {Extend(r, c, d) : r \in @}],
          err |-> "ok"]

\* CREATE INDEX IF NOT EXISTS i ON t(...)
CreateIndexIfNotExists(db, t, i) ==
    IF t \notin db.tables THEN [db |-> db, err |-> "no such table"]
    ELSE [db |-> [db EXCEPT !.indexes = @ \cup {i}], err |-> "ok"]

HasColumn_Uninspected(db, t, c) == FALSE

\* tableInfo.some((col) => col.name === c)
HasColumn(db, t, c) == c \in TableInfo(db, t)

\* the outcome of a migration: the database, the error it threw ("ok" for
\* none) and the errors the engine raised on the way, caught or not
MigOk(db) == [db |-> db, err |-> "ok", raised |-> {}]

\* migrations.ts:30-52, 58-86, 149-171, 176-198: inspect, ALTER if the column
\* is missing, swallow a "duplicate column" error and rethrow any other
AddColumnMigration(db, t, c, d) ==
    IF HasColumn(db, t, c) THEN MigOk(db)
    ELSE LET r == AlterAddColumn(db, t, c, d) IN
         IF r.err = "ok" THEN MigOk(r.db)
         ELSE IF r.err = "duplicate column"
              THEN [db |-> r.db, err |-> "ok", raised |-> {r.err}]
              ELSE [db |-> r.db, err |-> r.err, raised |-> {r.err}]

migrateAddYearToAllowanceSources(db) ==
    AddColumnMigration(db, "allowance_sources", "year", 2026)

migrateAddIsPaidToExpenses(db) ==
    AddColumnMigration(db, "expenses", "is_paid", 0)

migrateAddPasswordToProfiles(db) ==
    AddColumnMigration(db, "profiles", "password_hash", NullValue)

migrateAddIsVerifiedToExpenses(db) ==
    AddColumnMigration(db, "expenses", "is_verified", 0)

\* migrations.ts:96-114: create the profiles table and its Default row
CreateProfiles(db) ==
    IF "profiles" \in db.tables THEN db
    ELSE [db EXCEPT !.tables = @ \cup {"profiles"},
                    !.cols["profiles"] = {"id", "name", "created_at"},
                    !.rows["profiles"] =
                        {[x \in {"id", "name", "created_at"} |-> 1]}]

\* one ALTER of migrateAddProfiles: inspected first, any error is rethrown
AddProfileId(res, t) ==
    IF res.err # "ok" \/ HasColumn(res.db, t, "profile_id") THEN res
    ELSE LET r == AlterAddColumn(res.db, t, "profile_id", 1) IN
         [db |-> r.db, err |-> r.err,
          raised |-> IF r.err = "ok" THEN res.raised ELSE res.raised \cup {r.err}]

\* one CREATE INDEX of migrateAddProfiles
AddIndex(res, t, i) ==
    IF res.err # "ok" THEN res
    ELSE LET r == CreateIndexIfNotExists(res.db, t, i) IN
         [db |-> r.db, err |-> r.err,
          raised |-> IF r.err = "ok" THEN res.raised ELSE res.raised \cup {r.err}]

\* migrations.ts:91-143
migrateAddProfiles(db) ==
    AddIndex(
        AddIndex(
            AddProfileId(AddProfileId(MigOk(CreateProfiles(db)), "months"),
                         "allowance_sources"),
            "months", "idx_months_profile"),
        "allowance_sources", "idx_allowance_sources_profile")

\* migrations.ts:7-25: the migrations in the order runMigrations awaits them
Migration(i, db) ==
    CASE i = 1 -> migrateAddYearToAllowanceSources(db)
      [] i = 2 -> migrateAddProfiles(db)
      [] i = 3 -> migrateAddIsPaidToExpenses(db)
      [] i = 4 -> migrateAddPasswordToProfiles(db)
      [] i = 5 -> migrateAddIsVerifiedToExpenses(db)

\* a step of the runner leaves the other specifications' state alone
MigOnly == UNCHANGED <<connVars, dataVars, bakVars, expVars, repVars, monVars, proVars, calVars,
                       synVars, appVars>>

\* the runner's next await: one migration, which returns or throws
MigStep ==
    /\ migPc \in 1..5
    /\ LET r == Migration(migPc, mdb) IN
        /\ mdb' = r.db
        /\ migRaised' = migRaised \cup r.raised
        /\ migPc' = IF r.err = "ok" THEN migPc + 1 ELSE 7
    /\ UNCHANGED <<migRun, migSnap>>
    /\ MigOnly

\* runMigrations has returned; it is called again on the database it left
MigRunAgain ==
    /\ migPc = 6
    /\ migRun = 1
    /\ migSnap' = mdb
    /\ migRun' = 2
    /\ migPc' = 1
    /\ migRaised' = {}
    /\ UNCHANGED mdb
    /\ MigOnly

\* the columns a table has in every build
BaseCols(t) ==
    CASE t = "profiles"          -> {"id", "name", "created_at"}
      [] t = "allowance_sources" -> {"id", "name", "amount_cents"}
      [] t = "months"            -> {"id", "year", "month"}
      [] t = "expenses"          -> {"id", "month_id", "amount_cents"}

\* the columns later builds added, by migration or in CREATE_TABLES
LaterCols(t) ==
    CASE t = "profiles"          -> {"password_hash", "auth_password_hash"}
      [] t = "allowance_sources" -> {"year", "profile_id"}
      [] t = "months"            -> {"profile_id"}
      [] t = "expenses"          -> {"is_paid", "is_verified"}

\* the value the rows of a legacy database hold
OldValue == 7

\* the column sets table t may have in a database left by an earlier build
LegacyCols(t) == {BaseCols(t) \cup later : later \in SUBSET LaterCols(t)}

\* table t of a legacy database: its columns, and no row or one row of old values
LegacyTable(t) ==
    {[cols |-> cs, rows |-> rs] :
        cs \in LegacyCols(t), rs \in {"none", "one"}}

RowsOf(lt) == IF lt.rows = "one" THEN {[x \in lt.cols |-> OldValue]} ELSE {}

\* a database left by any earlier build: the data tables exist with the
\* base columns and any of the later ones; profiles may not exist yet; each
\* table is empty or holds a row
LegacyDatabases ==
    {[tables |-> IF hasProfiles THEN MigTables ELSE MigTables \ {"profiles"},
      cols |-> [t \in MigTables |->
                   CASE t = "profiles" -> IF hasProfiles THEN p.cols ELSE {}
                     [] t = "allowance_sources" -> a.cols
                     [] t = "months" -> m.cols
                     [] t = "expenses" -> e.cols],
      rows |-> [t \in MigTables |->
                   CASE t = "profiles" -> IF hasProfiles THEN RowsOf(p) ELSE {}
                     [] t = "allowance_sources" -> RowsOf(a)
                     [] t = "months" -> RowsOf(m)
                     [] t = "expenses" -> RowsOf(e)],
      indexes |-> {}] :
        hasProfiles \in BOOLEAN,
        p \in LegacyTable("profiles"), a \in LegacyTable("allowance_sources"),
        m \in LegacyTable("months"), e \in LegacyTable("expenses")}

\* the storage engine's state while another specification runs
ParkedConn ==
    /\ InitConn
    /\ storedVersion = NoRow

InitMig ==
    /\ mdb \in LegacyDatabases
    /\ migRun = 1
    /\ migPc = 1
    /\ migSnap = 0
    /\ migRaised = {}
    /\ ParkedConn
    /\ ParkedData
    /\ ParkedBackup
    /\ ParkedExpense
    /\ ParkedServices

NextMig ==
    \/ MigStep
    \/ MigRunAgain

SpecMig == InitMig /\ [][NextMig]_vars

(***************************************************************************)
(* The data tables (schema.ts) and the repositories' read queries          *)
(***************************************************************************)
\* the four data tables the backup service reads and rewrites
DataTables == {"allowance_sources", "categories", "months", "expenses"}

\* the primary keys in use in a table
Ids(rows) == {r.id : r \in rows}

\* the tables of a database, without the profiles and the schema's defaults
Dataset(d) == [t \in DataTables |-> d[t]]

\* INSERT INTO categories: PRIMARY KEY, UNIQUE name compared as stored (the
\* column has no collation); callers always bind a name, so NOT NULL holds
CategoryInsertable(d, r) ==
    /\ r.id \notin Ids(d["categories"])
    /\ \A x \in d["categories"] : x.name # r.name

\* INSERT INTO allowance_sources: PRIMARY KEY, NOT NULL year, and the profile
\* exists where the table was created with its FOREIGN KEY
AllowanceInsertable(d, r) ==
    /\ r.id \notin Ids(d["allowance_sources"])
    /\ r.year # NullValue
    /\ r.name # NullValue
    /\ d["profile_fk"] => r.profile_id \in d["profiles"]

\* INSERT INTO months: PRIMARY KEY, CHECK on month, UNIQUE(profile_id, year,
\* month), and the profile exists where the table was created with its
\* FOREIGN KEY
MonthInsertable(d, r) ==
    /\ r.id \notin Ids(d["months"])
    /\ r.month >= 1 /\ r.month <= 12
    /\ \A x \in d["months"] :
          ~(x.profile_id = r.profile_id /\ x.year = r.year /\ x.month = r.month)
    /\ d["profile_fk"] => r.profile_id \in d["profiles"]

\* INSERT INTO expenses: PRIMARY KEY, CHECK(amount_cents > 0), the month and the
\* category exist
ExpenseInsertable(d, r) ==
    /\ r.id \notin Ids(d["expenses"])
    /\ r.amount_cents > 0
    /\ r.month_id \in Ids(d["months"])
    /\ r.category_id \in Ids(d["categories"])

Insertable(d, t, r) ==
    CASE t = "categories" -> CategoryInsertable(d, r)
      [] t = "allowance_sources" -> AllowanceInsertable(d, r)
      [] t = "months" -> MonthInsertable(d, r)
      [] t = "expenses" -> ExpenseInsertable(d, r)

InsertRow(d, t, r) == [d EXCEPT ![t] = @ \cup {r}]

\* DELETE FROM t, with the ON DELETE CASCADE of expenses.month_id
DeleteAll(d, t) ==
    IF t = "months"
    THEN [d EXCEPT !["months"] = {}, !["expenses"] = {}]
    ELSE [d EXCEPT ![t] = {}]

\* DELETE FROM categories fails while an expense still refers to a category
Deletable(d, t) == t = "categories" => d["expenses"] = {}

mapToAllowanceSource(e) ==
    [id |-> e.id, year |-> e.year, name |-> e.name, amountCents |-> e.amount_cents,
     isActive |-> (e.is_active = 1), createdAt |-> e.created_at,
     updatedAt |-> e.updated_at, deletedAt |-> e.deleted_at]

mapToCategory(e) ==
    [id |-> e.id, name |-> e.name, icon |-> e.icon, color |-> e.color,
     sortOrder |-> e.sort_order]

mapToMonth(e) ==
    [id |-> e.id, year |-> e.year, month |-> e.month,
     allowanceOverrideCents |-> e.allowance_override_cents,
     createdAt |-> e.created_at, updatedAt |-> e.updated_at]

mapToExpense(e) ==
    [id |-> e.id, monthId |-> e.month_id, categoryId |-> e.category_id,
     amountCents |-> e.amount_cents, note |-> e.note,
     expenseDate |-> e.expense_date, isPaid |-> (e.is_paid = 1),
     isVerified |-> (e.is_verified = 1), createdAt |-> e.created_at,
     updatedAt |-> e.updated_at, deletedAt |-> e.deleted_at]

NotDeleted_AllRows(rows) == rows

\* WHERE deleted_at IS NULL
NotDeleted(rows) == {r \in rows : r.deleted_at = NullValue}

\* AllowanceRepository.findAll(), called without a profile
AllowanceFindAll(d) == {mapToAllowanceSource(r) : r \in NotDeleted(d["allowance_sources"])}

AllowanceFindAllIncludingDeleted(d) == {mapToAllowanceSource(r) : r \in d["allowance_sources"]}

\* CategoryRepository.findAll()
CategoryFindAll(d) == {mapToCategory(r) : r \in NotDeleted(d["categories"])}

CategoryFindAllIncludingDeleted(d) == {mapToCategory(r) : r \in d["categories"]}

\* MonthRepository.findAll(), called without a profile
MonthFindAll(d) == {mapToMonth(r) : r \in d["months"]}

\* ExpenseRepository.findAll()
ExpenseFindAll(d) == {mapToExpense(r) : r \in d["expenses"]}

(***************************************************************************)
(* Backup service: exportAllData and importData                            *)
(***************************************************************************)
EXPORT_VERSION == 1

DocArrays == {"allowanceSources", "categories", "months", "expenses"}

\* a parsed document: whether the text parsed, typeof of the top-level fields,
\* which members of data are arrays, and the arrays
Document(version, rows) ==
    [json |-> TRUE, versionType |-> "number", version |-> version,
     exportedAtType |-> "string", dataType |-> "object",
     arrays |-> DocArrays, rows |-> rows]

\* exportAllData: the four findAll queries, wrapped with version and date.
\* JSON.stringify followed by JSON.parse gives back these numbers, strings,
\* booleans and nulls unchanged.
exportAllData(d) ==
    Document(EXPORT_VERSION,
             [allowanceSources |-> AllowanceFindAll(d),
              categories |-> CategoryFindAll(d),
              months |-> MonthFindAll(d),
              expenses |-> ExpenseFindAll(d)])

validateExportData(doc) ==
    /\ doc.versionType = "number"
    /\ doc.exportedAtType = "string"
    /\ doc.dataType = "object"
    /\ "allowanceSources" \in doc.arrays
    /\ "categories" \in doc.arrays
    /\ "months" \in doc.arrays
    /\ "expenses" \in doc.arrays

NewerVersion_Unchecked(doc) == FALSE

\* data.version > EXPORT_VERSION
NewerVersion(doc) == doc.version > EXPORT_VERSION

\* the three checks importData makes before it asks for the database
Accepted(doc) ==
    /\ doc.json
    /\ validateExportData(doc)
    /\ ~NewerVersion(doc)

\* the row each INSERT of importData writes: the columns it lists take the
\* document's values, the others the schema's defaults
ImportedCategory(x, now) ==
    [id |-> x.id, name |-> x.name, icon |-> x.icon, color |-> x.color,
     sort_order |-> x.sortOrder, created_at |-> now, updated_at |-> now,
     deleted_at |-> NullValue]

ImportedAllowance(x, d) ==
    [id |-> x.id, profile_id |-> 1, year |-> d["year_default"], name |-> x.name,
     amount_cents |-> x.amountCents, is_active |-> IF x.isActive THEN 1 ELSE 0,
     created_at |-> x.createdAt, updated_at |-> x.updatedAt,
     deleted_at |-> x.deletedAt]

ImportedMonth(x) ==
    [id |-> x.id, profile_id |-> 1, year |-> x.year, month |-> x.month,
     allowance_override_cents |-> x.allowanceOverrideCents,
     created_at |-> x.createdAt, updated_at |-> x.updatedAt]

ImportedExpense(x) ==
    [id |-> x.id, month_id |-> x.monthId, category_id |-> x.categoryId,
     amount_cents |-> x.amountCents, note |-> x.note,
     expense_date |-> x.expenseDate, is_paid |-> 0, is_verified |-> 0,
     created_at |-> x.createdAt, updated_at |-> x.updatedAt,
     deleted_at |-> x.deletedAt]

ImportedRow(t, x, d, now) ==
    CASE t = "categories" -> ImportedCategory(x, now)
      [] t = "allowance_sources" -> ImportedAllowance(x, d)
      [] t = "months" -> ImportedMonth(x)
      [] t = "expenses" -> ImportedExpense(x)

\* importData's position: the statement it is about to run
At(name, i) == [at |-> name, i |-> i]

\* the order of importData's DELETE statements and of its INSERT loops
DeleteOrder == <<"expenses", "months", "categories", "allowance_sources">>

InsertOrder == <<"categories", "allowance_sources", "months", "expenses">>

ArrayOf(t) == IF t = "allowance_sources" THEN "allowanceSources" ELSE t

\* the statement after the i-th insert loop: the first following loop whose
\* array is not empty, or COMMIT
RECURSIVE LoopFrom(_, _)
LoopFrom(i, doc) ==
    IF i > Len(InsertOrder) THEN [pc |-> At("commit", 0), todo |-> {}]
    ELSE IF doc.rows[ArrayOf(InsertOrder[i])] = {} THEN LoopFrom(i + 1, doc)
    ELSE [pc |-> At("insert", i), todo |-> doc.rows[ArrayOf(InsertOrder[i])]]

Deleting == bpc.at = "delete"

Inserting == bpc.at = "insert"

Rollback_Kept(current, journal) == current

\* ROLLBACK: the tables as they were at BEGIN (the journal holds them while a
\* transaction is open)
Rollback(current, journal) == CHOOSE d \in journal : TRUE

\* a step of the backup service leaves the other specifications' state alone
BackupOnly == UNCHANGED <<connVars, migVars, expVars, repVars, monVars, proVars, calVars,
                          synVars, appVars>>


\* datetime('now') while the import runs: not before the stored timestamps
Nows == {2, 3}

\* rows the repositories can have written: of two profiles, live and
\* soft-deleted, paid and verified or not
AllowanceRow(id, profile, year, active, updated, deleted) ==
    [id |-> id, profile_id |-> profile, year |-> year, name |-> id,
     amount_cents |-> 500 * id, is_active |-> active, created_at |-> 1,
     updated_at |-> updated, deleted_at |-> deleted]

CategoryRow(id, name, updated, deleted) ==
    [id |-> id, name |-> name, icon |-> id, color |-> id, sort_order |-> id - 1,
     created_at |-> 1, updated_at |-> updated, deleted_at |-> deleted]

MonthRow(id, profile, override, updated) ==
    [id |-> id, profile_id |-> profile, year |-> 2026, month |-> 1,
     allowance_override_cents |-> override, created_at |-> 1,
     updated_at |-> updated]

ExpenseRow(id, month, category, amount, paid, verified, updated, deleted) ==
    [id |-> id, month_id |-> month, category_id |-> category,
     amount_cents |-> amount, note |-> NullValue, expense_date |-> 1,
     is_paid |-> paid, is_verified |-> verified, created_at |-> 1,
     updated_at |-> updated, deleted_at |-> deleted]

AllowanceRows ==
    {AllowanceRow(1, 1, 2026, 1, 1, NullValue), AllowanceRow(2, 2, 2025, 0, 2, 2)}

CategoryRows == {CategoryRow(1, 1, 1, NullValue), CategoryRow(2, 2, 2, 2)}

MonthRows == {MonthRow(1, 1, NullValue, 1), MonthRow(2, 2, 750, 2)}

ExpenseRows ==
    {ExpenseRow(1, 1, 1, 100, 1, 1, 1, NullValue),
     ExpenseRow(2, 2, 2, 200, 0, 0, 2, 2),
     ExpenseRow(3, 1, 1, 300, 0, 0, 1, NullValue)}

\* the profiles table: the default profile alone, with a second one, or the
\* second one after the default was deleted
ProfileSets == {{1}, {1, 2}, {2}}

\* allowance_sources.year has no default in CREATE_TABLES and DEFAULT 2026
\* where migrateAddYearToAllowanceSources added the column
YearDefaults == {NullValue, 2026}

\* profile_id REFERENCES profiles(id) ON DELETE CASCADE is part of CREATE_TABLES;
\* tables to which migrateAddProfiles added profile_id have the column without
\* the foreign key, and so have all tables that got their year by migration
SchemaVariant(d) == d["year_default"] # NullValue => ~d["profile_fk"]

\* the foreign keys hold
Consistent(d) ==
    /\ \A r \in d["allowance_sources"] \cup d["months"] : r.profile_id \in d["profiles"]
    /\ \A r \in d["expenses"] :
          r.month_id \in Ids(d["months"]) /\ r.category_id \in Ids(d["categories"])

Databases ==
    {d \in [profiles : ProfileSets, year_default : YearDefaults, profile_fk : BOOLEAN,
            allowance_sources : SUBSET AllowanceRows,
            categories : SUBSET CategoryRows,
            months : SUBSET MonthRows,
            expenses : SUBSET ExpenseRows] : SchemaVariant(d) /\ Consistent(d)}

\* the arrays of files written elsewhere
NoRows == [a \in DocArrays |-> {}]

SmallRows ==
    [NoRows EXCEPT !["categories"] = {mapToCategory(CategoryRow(1, 1, 1, NullValue))},
                   !["months"] = {mapToMonth(MonthRow(1, 1, NullValue, 1))},
                   !["expenses"] = {mapToExpense(ExpenseRow(3, 1, 1, 300, 0, 0, 1, NullValue))}]

\* an expense of a month the file does not hold
OrphanRows == [SmallRows EXCEPT !["months"] = {}]

\* two categories of one name
TwinRows ==
    [NoRows EXCEPT !["categories"] = {mapToCategory(CategoryRow(1, 1, 1, NullValue)),
                                      mapToCategory(CategoryRow(2, 1, 1, NullValue))}]

SourceRows ==
    [NoRows EXCEPT !["allowanceSources"] =
        {mapToAllowanceSource(AllowanceRow(1, 1, 2026, 1, 1, NullValue))}]

WellFormedFiles ==
    {Document(v, SmallRows) : v \in {EXPORT_VERSION - 1, EXPORT_VERSION}}
        \cup {Document(EXPORT_VERSION, r) : r \in {NoRows, OrphanRows, TwinRows, SourceRows}}

MalformedFiles ==
    {[Document(EXPORT_VERSION, SmallRows) EXCEPT !.json = FALSE],
     [Document(EXPORT_VERSION, SmallRows) EXCEPT !.versionType = "undefined"],
     [Document(EXPORT_VERSION, SmallRows) EXCEPT !.exportedAtType = "undefined"],
     [Document(EXPORT_VERSION, SmallRows) EXCEPT !.dataType = "undefined", !.arrays = {}],
     Document(EXPORT_VERSION + 1, SmallRows)}
        \cup {[Document(EXPORT_VERSION, SmallRows) EXCEPT !.arrays = DocArrays \ {a}] :
                a \in DocArrays}

Files == WellFormedFiles \cup MalformedFiles

\* exportAllData, the document parsed again by the import that follows
ExportAllData ==
    /\ bsource = "none"
    /\ bdoc' = exportAllData(store)
    /\ bsource' = "export"
    /\ bpre' = Dataset(store)
    /\ UNCHANGED <<store, bpc, btodo, bnow, bjournal, bresult, bfailed>>
    /\ BackupOnly

\* pickAndImport: the user picks a file written elsewhere
PickFile ==
    /\ bsource = "none"
    /\ \E f \in Files : bdoc' = f
    /\ bsource' = "file"
    /\ bpre' = Dataset(store)
    /\ UNCHANGED <<store, bpc, btodo, bnow, bjournal, bresult, bfailed>>
    /\ BackupOnly

\* importData, lines 125-141: the text does not parse, the structure is not
\* valid or the version is newer
ImportReject ==
    /\ bsource # "none"
    /\ bpc.at = "idle"
    /\ ~Accepted(bdoc)
    /\ bresult' = "ImportError"
    /\ bpc' = At("done", 0)
    /\ UNCHANGED <<store, bdoc, bsource, btodo, bnow, bjournal, bpre, bfailed>>
    /\ BackupOnly

\* importData, lines 143-146: BEGIN TRANSACTION
ImportBegin ==
    /\ bsource # "none"
    /\ bpc.at = "idle"
    /\ Accepted(bdoc)
    /\ \E now \in Nows : bnow' = now
    /\ bjournal' = {store}
    /\ bpc' = At("delete", 1)
    /\ UNCHANGED <<store, bdoc, bsource, btodo, bpre, bresult, bfailed>>
    /\ BackupOnly

\* importData, lines 150-153: one DELETE statement
ImportDelete ==
    /\ Deleting
    /\ LET t == DeleteOrder[bpc.i]
           after == IF bpc.i < Len(DeleteOrder)
                    THEN [pc |-> At("delete", bpc.i + 1), todo |-> {}]
                    ELSE LoopFrom(1, bdoc)
       IN  IF Deletable(store, t)
           THEN /\ store' = DeleteAll(store, t)
                /\ bpc' = after.pc
                /\ btodo' = after.todo
                /\ UNCHANGED bfailed
           ELSE /\ bpc' = At("rollback", 0)
                /\ bfailed' = TRUE
                /\ UNCHANGED <<store, btodo>>
    /\ UNCHANGED <<bdoc, bsource, bnow, bjournal, bpre, bresult>>
    /\ BackupOnly

\* importData, lines 156-199: one INSERT of one of the four loops
ImportInsert ==
    /\ Inserting
    /\ \E x \in btodo :
          LET t == InsertOrder[bpc.i]
              r == ImportedRow(t, x, store, bnow)
              after == IF btodo = {x} THEN LoopFrom(bpc.i + 1, bdoc)
                       ELSE [pc |-> bpc, todo |-> btodo \ {x}]
          IN  IF Insertable(store, t, r)
              THEN /\ store' = InsertRow(store, t, r)
                   /\ bpc' = after.pc
                   /\ btodo' = after.todo
                   /\ UNCHANGED bfailed
              ELSE /\ bpc' = At("rollback", 0)
                   /\ bfailed' = TRUE
                   /\ UNCHANGED <<store, btodo>>
    /\ UNCHANGED <<bdoc, bsource, bnow, bjournal, bpre, bresult>>
    /\ BackupOnly

\* the engine fails the statement importData is about to run (disk, I/O)
ImportStatementFails ==
    /\ Deleting \/ Inserting \/ bpc.at = "commit"
    /\ bpc' = At("rollback", 0)
    /\ bfailed' = TRUE
    /\ UNCHANGED <<store, bdoc, bsource, btodo, bnow, bjournal, bpre, bresult>>
    /\ BackupOnly

\* the same, with an error on which the engine rolls the transaction back by
\* itself (SQLITE_FULL, SQLITE_IOERR, SQLITE_NOMEM)
ImportEngineAborts ==
    /\ Deleting \/ Inserting \/ bpc.at = "commit"
    /\ store' = Rollback(store, bjournal)
    /\ bjournal' = {}
    /\ bpc' = At("rollback", 0)
    /\ bfailed' = TRUE
    /\ UNCHANGED <<bdoc, bsource, btodo, bnow, bpre, bresult>>
    /\ BackupOnly

\* importData, lines 201-213: COMMIT and the success result
ImportCommit ==
    /\ bpc.at = "commit"
    /\ bjournal' = {}
    /\ bresult' = "success"
    /\ bpc' = At("done", 0)
    /\ UNCHANGED <<store, bdoc, bsource, btodo, bnow, bpre, bfailed>>
    /\ BackupOnly

\* importData, lines 214-218: the catch block; with no transaction left to
\* roll back, ROLLBACK throws and that error reaches the caller instead
ImportRollback ==
    /\ bpc.at = "rollback"
    /\ IF bjournal # {}
       THEN /\ store' = Rollback(store, bjournal)
            /\ bresult' = "ImportError"
       ELSE /\ store' = store
            /\ bresult' = "Error"
    /\ bjournal' = {}
    /\ bpc' = At("done", 0)
    /\ UNCHANGED <<bdoc, bsource, btodo, bnow, bpre, bfailed>>
    /\ BackupOnly


InitBackup ==
    /\ store \in Databases
    /\ bdoc = 0
    /\ bsource = "none"
    /\ bpc = At("idle", 0)
    /\ btodo = {}
    /\ bnow = 0
    /\ bjournal = {}
    /\ bpre = 0
    /\ bresult = "none"
    /\ bfailed = FALSE
    /\ ParkedConn
    /\ ParkedMig
    /\ ParkedExpense
    /\ ParkedServices

NextBackup ==
    \/ ExportAllData
    \/ PickFile
    \/ ImportReject
    \/ ImportBegin
    \/ ImportDelete
    \/ ImportInsert
    \/ ImportStatementFails
    \/ ImportEngineAborts
    \/ ImportCommit
    \/ ImportRollback

SpecBackup == InitBackup /\ [][NextBackup]_vars

(***************************************************************************)
(* ExpenseRepository: update and the single-statement writes               *)
(***************************************************************************)
\* the members of UpdateExpenseDTO update looks at
DtoFields == {"categoryId", "amountCents", "note", "expenseDate", "isPaid", "isVerified"}

\* a DTO: the members that are not undefined (has) and their values; a member
\* that is undefined carries the first value of its range
CanonicalDto(dto) ==
    /\ "categoryId" \notin dto.has => dto.categoryId = 1
    /\ "amountCents" \notin dto.has => dto.amountCents = 0
    /\ "note" \notin dto.has => dto.note = 1
    /\ "expenseDate" \notin dto.has => dto.expenseDate = 1
    /\ "isPaid" \notin dto.has => dto.isPaid = FALSE
    /\ "isVerified" \notin dto.has => dto.isVerified = FALSE

\* the DTOs callers pass: stored and other values, and an amount the CHECK
\* constraint refuses
UpdateDtos ==
    {dto \in [has : SUBSET DtoFields, categoryId : {1, 2}, amountCents : {0, 100, 200},
              note : {1, 2}, expenseDate : {1, 2}, isPaid : BOOLEAN,
              isVerified : BOOLEAN] : CanonicalDto(dto)}

\* the ids callers pass: two stored expenses and one that was never stored
UpdateIds == {1, 2, 3}

\* ExpenseRepository.findById: the row, unless it is soft-deleted
findById(d, id) == {mapToExpense(r) : r \in {x \in NotDeleted(d["expenses"]) : x.id = id}}

NoteChanged_Ignored(dto, existing) == FALSE

\* update, lines 165-168
NoteChanged(dto, existing) == "note" \in dto.has /\ dto.note # existing.note

shouldResetVerification_AnyPaidChange(dto, existing) ==
    "isPaid" \in dto.has /\ existing.isPaid # dto.isPaid

\* update, lines 149-186: old and new values compared member by member
shouldResetVerification(dto, existing) ==
    \/ "categoryId" \in dto.has /\ dto.categoryId # existing.categoryId
    \/ "amountCents" \in dto.has /\ dto.amountCents # existing.amountCents
    \/ NoteChanged(dto, existing)
    \/ "expenseDate" \in dto.has /\ dto.expenseDate # existing.expenseDate
    \/ "isPaid" \in dto.has /\ existing.isPaid /\ ~dto.isPaid

UpdatedRow_ResetWins(r, dto, existing, now) ==
    [r EXCEPT
       !.category_id = IF "categoryId" \in dto.has THEN dto.categoryId ELSE @,
       !.amount_cents = IF "amountCents" \in dto.has THEN dto.amountCents ELSE @,
       !.note = IF "note" \in dto.has THEN dto.note ELSE @,
       !.expense_date = IF "expenseDate" \in dto.has THEN dto.expenseDate ELSE @,
       !.is_paid = IF "isPaid" \in dto.has THEN (IF dto.isPaid THEN 1 ELSE 0) ELSE @,
       !.is_verified = IF shouldResetVerification(dto, existing) THEN 0
                       ELSE IF "isVerified" \in dto.has
                            THEN (IF dto.isVerified THEN 1 ELSE 0) ELSE @,
       !.updated_at = now]

\* the row the UPDATE statement of update leaves, lines 151-203
UpdatedRow(r, dto, existing, now) ==
    [r EXCEPT
       !.category_id = IF "categoryId" \in dto.has THEN dto.categoryId ELSE @,
       !.amount_cents = IF "amountCents" \in dto.has THEN dto.amountCents ELSE @,
       !.note = IF "note" \in dto.has THEN dto.note ELSE @,
       !.expense_date = IF "expenseDate" \in dto.has THEN dto.expenseDate ELSE @,
       !.is_paid = IF "isPaid" \in dto.has THEN (IF dto.isPaid THEN 1 ELSE 0) ELSE @,
       !.is_verified = IF "isVerified" \in dto.has
                       THEN (IF dto.isVerified THEN 1 ELSE 0)
                       ELSE IF shouldResetVerification(dto, existing) THEN 0 ELSE @,
       !.updated_at = now]

\* UPDATE expenses: CHECK(amount_cents > 0) and the category exists
ExpenseUpdatable(d, r) ==
    /\ r.amount_cents > 0
    /\ r.category_id \in Ids(d["categories"])

\* UPDATE expenses SET ... WHERE id IN (ids): set maps each row to its new value
UpdateWhere(d, ids, set) ==
    [d EXCEPT !["expenses"] = {IF r.id \in ids THEN set[r] ELSE r : r \in @}]

\* a step of the expense repository leaves the other specifications' state alone
ExpenseOnly == UNCHANGED <<connVars, migVars, bakVars, repVars, monVars, proVars, calVars,
                           synVars, appVars>>

\* update(id, dto) is called; it waits for getDatabase
UpdateCall ==
    /\ utask.pc = "idle"
    /\ \E id \in UpdateIds, dto \in UpdateDtos :
          utask' = [pc |-> "find", id |-> id, dto |-> dto, existing |-> {},
                    result |-> "none", returned |-> {}]
    /\ UNCHANGED <<store, ubefore, uother>>
    /\ ExpenseOnly

\* update, lines 144-145: findById, or "Expense not found"
UpdateFind ==
    /\ utask.pc = "find"
    /\ LET found == findById(store, utask.id)
       IN  IF found = {}
           THEN utask' = [utask EXCEPT !.pc = "done", !.result = "Expense not found"]
           ELSE utask' = [utask EXCEPT !.pc = "write", !.existing = found]
    /\ UNCHANGED <<store, ubefore, uother>>
    /\ ExpenseOnly

\* update, lines 147-203: the SET list is built from the DTO and the row read
\* before; with nothing to set the row read is returned; else the UPDATE runs,
\* on the row of that id whatever has happened to it since, and may be refused
UpdateWrite ==
    /\ utask.pc = "write"
    /\ LET existing == CHOOSE e \in utask.existing : TRUE
           stored == {r \in store["expenses"] : r.id = utask.id}
       IN  IF utask.dto.has = {}
           THEN /\ utask' = [utask EXCEPT !.pc = "done", !.result = "ok",
                                          !.returned = utask.existing]
                /\ UNCHANGED <<store, ubefore>>
           ELSE \E now \in Nows :
                  IF \A r \in stored :
                        ExpenseUpdatable(store, UpdatedRow(r, utask.dto, existing, now))
                  THEN /\ store' = UpdateWhere(store, {utask.id},
                                      [r \in store["expenses"] |->
                                          UpdatedRow(r, utask.dto, existing, now)])
                       /\ ubefore' = stored
                       /\ utask' = [utask EXCEPT !.pc = "reread"]
                  ELSE /\ utask' = [utask EXCEPT !.pc = "done", !.result = "constraint failed"]
                       /\ UNCHANGED <<store, ubefore>>
    /\ UNCHANGED uother
    /\ ExpenseOnly

\* update, lines 205-209: findById again
UpdateReturn ==
    /\ utask.pc = "reread"
    /\ LET found == findById(store, utask.id)
       IN  IF found = {}
           THEN utask' = [utask EXCEPT !.pc = "done", !.result = "Expense not found"]
           ELSE utask' = [utask EXCEPT !.pc = "done", !.result = "ok", !.returned = found]
    /\ UNCHANGED <<store, ubefore, uother>>
    /\ ExpenseOnly

\* datetime('now') while the calls run: after the stored timestamps
UpdateNows == {2}

\* softDelete(id), run by another caller while update is in flight
SoftDelete ==
    /\ utask.pc \in {"find", "write", "reread"}
    /\ uother = "none"
    /\ \E id \in {1}, now \in UpdateNows :
          store' = UpdateWhere(store, {id},
                      [r \in store["expenses"] |->
                          [r EXCEPT !.deleted_at = now, !.updated_at = now]])
    /\ uother' = "softDelete"
    /\ UNCHANGED <<utask, ubefore>>
    /\ ExpenseOnly

\* bulkUpdatePaidStatus(ids, isPaid), run by another caller meanwhile:
\* marking unpaid also clears is_verified
BulkUpdatePaidStatus ==
    /\ utask.pc \in {"find", "write", "reread"}
    /\ uother = "none"
    /\ \E ids \in {{1, 2}}, isPaid \in BOOLEAN, now \in UpdateNows :
          store' = UpdateWhere(store, ids,
                      [r \in store["expenses"] |->
                          IF isPaid
                          THEN [r EXCEPT !.is_paid = 1, !.updated_at = now]
                          ELSE [r EXCEPT !.is_paid = 0, !.is_verified = 0,
                                         !.updated_at = now]])
    /\ uother' = "bulkUpdatePaidStatus"
    /\ UNCHANGED <<utask, ubefore>>
    /\ ExpenseOnly

\* bulkUpdateVerifiedStatus(ids, isVerified), run by another caller meanwhile
BulkUpdateVerifiedStatus ==
    /\ utask.pc \in {"find", "write", "reread"}
    /\ uother = "none"
    /\ \E ids \in {{1, 2}}, isVerified \in BOOLEAN, now \in UpdateNows :
          store' = UpdateWhere(store, ids,
                      [r \in store["expenses"] |->
                          [r EXCEPT !.is_verified = IF isVerified THEN 1 ELSE 0,
                                    !.updated_at = now]])
    /\ uother' = "bulkUpdateVerifiedStatus"
    /\ UNCHANGED <<utask, ubefore>>
    /\ ExpenseOnly

\* the first expense as the repository can have left it: paid or not, verified
\* or not, with or without a note, live or soft-deleted
StoredExpenses ==
    {[ExpenseRow(1, 1, 1, 100, paid, verified, 1, deleted) EXCEPT !.note = note] :
        paid \in {0, 1}, verified \in {0, 1}, note \in {NullValue, 1},
        deleted \in {NullValue, 1}}

ExpenseDatabases ==
    {[profiles |-> {1}, year_default |-> NullValue, profile_fk |-> TRUE,
      allowance_sources |-> {},
      categories |-> {CategoryRow(1, 1, 1, NullValue), CategoryRow(2, 2, 1, NullValue)},
      months |-> {MonthRow(1, 1, NullValue, 1)},
      expenses |-> {e, ExpenseRow(2, 1, 2, 200, 1, 1, 1, NullValue)}] :
        e \in StoredExpenses}

InitExpense ==
    /\ store \in ExpenseDatabases
    /\ utask = [pc |-> "idle"]
    /\ ubefore = {}
    /\ uother = "none"
    /\ ParkedConn
    /\ ParkedMig
    /\ ParkedBackup
    /\ ParkedServices

NextExpense ==
    \/ UpdateCall
    \/ UpdateFind
    \/ UpdateWrite
    \/ UpdateReturn
    \/ SoftDelete
    \/ BulkUpdatePaidStatus
    \/ BulkUpdateVerifiedStatus

SpecExpense == InitExpense /\ [][NextExpense]_vars

(***************************************************************************)
(* ExpenseRepository: claims                                               *)
(***************************************************************************)
\* the members C10 lists, compared with the stored row: some supplied one
\* differs
C10_SuppliedDiffers(dto, r) ==
    \/ "categoryId" \in dto.has /\ dto.categoryId # r.category_id
    \/ "amountCents" \in dto.has /\ dto.amountCents # r.amount_cents
    \/ "note" \in dto.has /\ dto.note # r.note
    \/ "expenseDate" \in dto.has /\ dto.expenseDate # r.expense_date

\* C10: when update's UPDATE statement runs on a stored expense that is
\* verified, with neither isPaid nor isVerified in the DTO, the row is left
\* unverified if some supplied member among categoryId, amountCents, note and
\* expenseDate differs from the stored value, and verified otherwise.
C10_ResetIffFieldDiffers ==
    [][(utask.pc = "write" /\ utask'.pc = "reread"
          /\ "isPaid" \notin utask.dto.has /\ "isVerified" \notin utask.dto.has) =>
        \A r \in store["expenses"] :
            (r.id = utask.id /\ r.is_verified = 1) =>
                \E w \in store'["expenses"] :
                    /\ w.id = r.id
                    /\ w.is_verified = IF C10_SuppliedDiffers(utask.dto, r) THEN 0 ELSE 1]_vars

\* an update of a verified expense that supplied only a note, another one
\* than the stored one, has returned the expense unverified, nobody else
\* having written meanwhile
C10_Witness ==
    /\ utask.pc = "done"
    /\ utask.result = "ok"
    /\ utask.dto.has = {"note"}
    /\ uother = "none"
    /\ \E b \in ubefore : b.is_verified = 1 /\ b.note = 1 /\ utask.dto.note = 2
    /\ \E e \in utask.returned : ~e.isVerified /\ e.note = 2

\* C11: an update that supplies only isPaid, on a row nobody else has written
\* since update read it, leaves is_verified as it was when it turns an unpaid
\* expense paid, and clears it when it turns a paid expense unpaid.
C11_PaidToggleAndVerification ==
    [][(utask.pc = "write" /\ utask'.pc = "reread" /\ uother = "none"
          /\ utask.dto.has = {"isPaid"}) =>
        \A r \in store["expenses"] :
            r.id = utask.id =>
                \E w \in store'["expenses"] :
                    /\ w.id = r.id
                    /\ (r.is_paid = 0 /\ utask.dto.isPaid) =>
                          (w.is_paid = 1 /\ w.is_verified = r.is_verified)
                    /\ (r.is_paid = 1 /\ ~utask.dto.isPaid) =>
                          (w.is_paid = 0 /\ w.is_verified = 0)]_vars

\* an update supplying only isPaid = true on an unpaid, verified expense has
\* returned it paid and still verified
C11_Witness ==
    /\ utask.pc = "done"
    /\ utask.result = "ok"
    /\ utask.dto.has = {"isPaid"}
    /\ utask.dto.isPaid
    /\ uother = "none"
    /\ \E b \in ubefore : b.is_paid = 0 /\ b.is_verified = 1
    /\ \E e \in utask.returned : e.isPaid /\ e.isVerified

\* C23: the UPDATE of an update call that supplies isVerified stores the
\* supplied value, whatever else the call changes, a switch from paid to
\* unpaid included.
C23_ExplicitVerificationWins ==
    [][(utask.pc = "write" /\ utask'.pc = "reread" /\ "isVerified" \in utask.dto.has) =>
          \A w \in store'["expenses"] :
              w.id = utask.id => w.is_verified = (IF utask.dto.isVerified THEN 1 ELSE 0)]_vars

\* an update of a paid expense that marks it unpaid, changes its amount and
\* supplies isVerified = true has returned it unpaid and verified
C23_Witness ==
    /\ utask.pc = "done"
    /\ utask.result = "ok"
    /\ utask.dto.has = {"isPaid", "amountCents", "isVerified"}
    /\ ~utask.dto.isPaid
    /\ utask.dto.isVerified
    /\ uother = "none"
    /\ \E b \in ubefore : b.is_paid = 1 /\ b.amount_cents # utask.dto.amountCents
    /\ \E e \in utask.returned : ~e.isPaid /\ e.isVerified

(***************************************************************************)
(* The repositories' default queries                                       *)
(***************************************************************************)
\* SUM(amount_cents) over a set of rows, 0 for none (total ?? 0)
RECURSIVE SumAmountCents(_)
SumAmountCents(rows) ==
    IF rows = {} THEN 0
    ELSE LET r == CHOOSE x \in rows : TRUE
         IN  r.amount_cents + SumAmountCents(rows \ {r})

\* ExpenseRepository.findByMonthId
findByMonthId(d, monthId) ==
    {mapToExpense(r) : r \in {x \in NotDeleted(d["expenses"]) : x.month_id = monthId}}

\* ExpenseRepository.findByMonthAndCategory
findByMonthAndCategory(d, monthId, categoryId) ==
    {mapToExpense(r) : r \in {x \in NotDeleted(d["expenses"]) :
                                x.month_id = monthId /\ x.category_id = categoryId}}

\* ExpenseRepository.getTotalForMonth: paid expenses only
getTotalForMonth(d, monthId) ==
    SumAmountCents({x \in NotDeleted(d["expenses"]) : x.month_id = monthId /\ x.is_paid = 1})

\* ExpenseRepository.getBalanceForMonth: unpaid expenses only
getBalanceForMonth(d, monthId) ==
    SumAmountCents({x \in NotDeleted(d["expenses"]) : x.month_id = monthId /\ x.is_paid = 0})

\* ExpenseRepository.getCategoryBreakdown: GROUP BY category_id
getCategoryBreakdown(d, monthId) ==
    LET rows == {x \in NotDeleted(d["expenses"]) : x.month_id = monthId}
    IN  {[categoryId |-> c, total |-> SumAmountCents({x \in rows : x.category_id = c})] :
            c \in {x.category_id : x \in rows}}

\* ExpenseRepository.getCountForMonth
getCountForMonth(d, monthId) ==
    Cardinality({x \in NotDeleted(d["expenses"]) : x.month_id = monthId})

\* CategoryRepository.findById
CategoryFindById(d, id) ==
    {mapToCategory(r) : r \in {x \in NotDeleted(d["categories"]) : x.id = id}}

\* AllowanceRepository.findById
AllowanceFindById(d, id) ==
    {mapToAllowanceSource(r) : r \in {x \in NotDeleted(d["allowance_sources"]) : x.id = id}}

\* AllowanceRepository.findAllActiveByYear
findAllActiveByYear(d, year, profileId) ==
    {mapToAllowanceSource(r) : r \in {x \in NotDeleted(d["allowance_sources"]) :
        x.profile_id = profileId /\ x.year = year /\ x.is_active = 1}}

\* AllowanceRepository.findAll(profileId)
AllowanceFindAllOf(d, profileId) ==
    {mapToAllowanceSource(r) : r \in {x \in NotDeleted(d["allowance_sources"]) :
        x.profile_id = profileId}}

\* AllowanceRepository.calculateTotalAllowance
AllowanceTotal(d, year, profileId) ==
    SumAmountCents({x \in NotDeleted(d["allowance_sources"]) :
        x.profile_id = profileId /\ x.year = year /\ x.is_active = 1})

(***************************************************************************)
(* The repositories' writes, one call after the other                      *)
(***************************************************************************)
\* calls made in one session
MaxRepoCalls == 2

\* the ids callers pass: two stored rows and one that was never stored
RepoIds == {1, 2, 3}

\* datetime('now') of a call: later than the stored timestamps and than the
\* calls before
RepoNow == rcalls + 2

\* a step of the session leaves the other specifications' state alone
RepoOnly == UNCHANGED <<connVars, migVars, bakVars, expVars, monVars, proVars, calVars,
                        synVars, appVars>>

\* what the session remembers of a call
Called(op, entity, id, outcome) ==
    [op |-> op, entity |-> entity, id |-> id, outcome |-> outcome, before |-> store]

\* UPDATE t SET deleted_at = datetime('now'), updated_at = datetime('now')
\* WHERE id = ?
SoftDeleted(d, t, id, now) ==
    [d EXCEPT ![t] = {IF r.id = id THEN [r EXCEPT !.deleted_at = now, !.updated_at = now]
                      ELSE r : r \in @}]

\* ExpenseRepository.softDelete: the statement, and nothing returned
ExpenseSoftDelete ==
    /\ rcalls < MaxRepoCalls
    /\ \E id \in RepoIds :
          /\ store' = SoftDeleted(store, "expenses", id, RepoNow)
          /\ rlast' = Called("softDelete", "expenses", id, "ok")
    /\ rcalls' = rcalls + 1
    /\ RepoOnly

\* CategoryRepository.softDelete
CategorySoftDelete ==
    /\ rcalls < MaxRepoCalls
    /\ \E id \in RepoIds :
          /\ store' = SoftDeleted(store, "categories", id, RepoNow)
          /\ rlast' = Called("softDelete", "categories", id, "ok")
    /\ rcalls' = rcalls + 1
    /\ RepoOnly

\* AllowanceRepository.softDelete
AllowanceSoftDelete ==
    /\ rcalls < MaxRepoCalls
    /\ \E id \in RepoIds :
          /\ store' = SoftDeleted(store, "allowance_sources", id, RepoNow)
          /\ rlast' = Called("softDelete", "allowance_sources", id, "ok")
    /\ rcalls' = rcalls + 1
    /\ RepoOnly

\* the DTOs of the session's ExpenseRepository.update calls
SessionExpenseDtos ==
    {dto \in UpdateDtos :
        \/ dto.has = {}
        \/ dto.has = {"note"} /\ dto.note = 2
        \/ dto.has = {"isPaid"} /\ ~dto.isPaid
        \/ dto.has = {"isVerified"} /\ dto.isVerified
        \/ dto.has = {"amountCents"} /\ dto.amountCents = 0}

\* ExpenseRepository.update, the whole call
ExpenseUpdate ==
    /\ rcalls < MaxRepoCalls
    /\ \E id \in RepoIds, dto \in SessionExpenseDtos :
          LET found == findById(store, id)
              existing == CHOOSE e \in found : TRUE
              set == [r \in store["expenses"] |-> UpdatedRow(r, dto, existing, RepoNow)]
          IN  IF found = {}
              THEN /\ rlast' = Called("update", "expenses", id, "not found")
                   /\ store' = store
              ELSE IF dto.has = {}
              THEN /\ rlast' = Called("update", "expenses", id, "ok")
                   /\ store' = store
              ELSE IF \A r \in store["expenses"] :
                         r.id = id => ExpenseUpdatable(store, set[r])
              THEN /\ store' = UpdateWhere(store, {id}, set)
                   /\ rlast' = Called("update", "expenses", id, "ok")
              ELSE /\ rlast' = Called("update", "expenses", id, "constraint failed")
                   /\ store' = store
    /\ rcalls' = rcalls + 1
    /\ RepoOnly

\* ExpenseRepository.bulkUpdatePaidStatus: nothing for an empty list; else one
\* UPDATE over the listed ids, which for unpaid also clears is_verified
ExpenseBulkUpdatePaidStatus ==
    /\ rcalls < MaxRepoCalls
    /\ \E ids \in SUBSET RepoIds, isPaid \in BOOLEAN :
          /\ store' = IF ids = {} THEN store
                       ELSE UpdateWhere(store, ids,
                               [r \in store["expenses"] |->
                                   IF isPaid
                                   THEN [r EXCEPT !.is_paid = 1, !.updated_at = RepoNow]
                                   ELSE [r EXCEPT !.is_paid = 0, !.is_verified = 0,
                                                  !.updated_at = RepoNow]])
          /\ rlast' = [op |-> "bulkUpdatePaidStatus", entity |-> "expenses", id |-> ids,
                       outcome |-> "ok", before |-> store, isPaid |-> isPaid]
    /\ rcalls' = rcalls + 1
    /\ RepoOnly

\* the DTOs of the session's CategoryRepository.update calls: nothing, a new
\* name, the name of the first category, a sort order
CategoryDtos ==
    {[has |-> {}, name |-> "Food", icon |-> 1, color |-> 1, sortOrder |-> 0],
     [has |-> {"name"}, name |-> "Bills", icon |-> 1, color |-> 1, sortOrder |-> 0],
     [has |-> {"name"}, name |-> "Food", icon |-> 1, color |-> 1, sortOrder |-> 0],
     [has |-> {"sortOrder", "icon"}, name |-> "Food", icon |-> 2, color |-> 1, sortOrder |-> 7]}

\* the row the UPDATE of CategoryRepository.update leaves
UpdatedCategory(r, dto, now) ==
    [r EXCEPT !.name = IF "name" \in dto.has THEN dto.name ELSE @,
              !.icon = IF "icon" \in dto.has THEN dto.icon ELSE @,
              !.color = IF "color" \in dto.has THEN dto.color ELSE @,
              !.sort_order = IF "sortOrder" \in dto.has THEN dto.sortOrder ELSE @,
              !.updated_at = now]

\* UPDATE categories: name stays UNIQUE among all rows, deleted ones included
CategoryUpdatable(d, r) ==
    \A x \in d["categories"] : x.id # r.id => x.name # r.name

\* UPDATE t SET ... WHERE id = ?, with set giving each row its new value
UpdateTableWhere(d, t, id, set) ==
    [d EXCEPT ![t] = {IF r.id = id THEN set[r] ELSE r : r \in @}]

\* CategoryRepository.update, the whole call: with nothing to set, findById;
\* else the UPDATE, on the row of that id deleted or not, and then findById
CategoryUpdate ==
    /\ rcalls < MaxRepoCalls
    /\ \E id \in RepoIds, dto \in CategoryDtos :
          LET set == [r \in store["categories"] |-> UpdatedCategory(r, dto, RepoNow)]
              after == UpdateTableWhere(store, "categories", id, set)
          IN  IF dto.has = {}
              THEN /\ store' = store
                   /\ rlast' = Called("update", "categories", id,
                                  IF CategoryFindById(store, id) = {} THEN "not found" ELSE "ok")
              ELSE IF \A r \in store["categories"] :
                         r.id = id => CategoryUpdatable(store, set[r])
              THEN /\ store' = after
                   /\ rlast' = Called("update", "categories", id,
                                  IF CategoryFindById(after, id) = {} THEN "not found" ELSE "ok")
              ELSE /\ store' = store
                   /\ rlast' = Called("update", "categories", id, "constraint failed")
    /\ rcalls' = rcalls + 1
    /\ RepoOnly

\* the DTOs of the session's AllowanceRepository.update calls
AllowanceDtos ==
    {[has |-> {}, name |-> 1, amountCents |-> 500, isActive |-> TRUE],
     [has |-> {"amountCents"}, name |-> 1, amountCents |-> 900, isActive |-> TRUE],
     [has |-> {"name", "isActive"}, name |-> 5, amountCents |-> 500, isActive |-> FALSE]}

\* the row the UPDATE of AllowanceRepository.update leaves
UpdatedAllowance(r, dto, now) ==
    [r EXCEPT !.name = IF "name" \in dto.has THEN dto.name ELSE @,
              !.amount_cents = IF "amountCents" \in dto.has THEN dto.amountCents ELSE @,
              !.is_active = IF "isActive" \in dto.has
                            THEN (IF dto.isActive THEN 1 ELSE 0) ELSE @,
              !.updated_at = now]

\* AllowanceRepository.update, the whole call
AllowanceUpdate ==
    /\ rcalls < MaxRepoCalls
    /\ \E id \in RepoIds, dto \in AllowanceDtos :
          LET set == [r \in store["allowance_sources"] |-> UpdatedAllowance(r, dto, RepoNow)]
              after == IF dto.has = {} THEN store
                       ELSE UpdateTableWhere(store, "allowance_sources", id, set)
          IN  /\ store' = after
              /\ rlast' = Called("update", "allowance_sources", id,
                             IF AllowanceFindById(after, id) = {} THEN "not found" ELSE "ok")
    /\ rcalls' = rcalls + 1
    /\ RepoOnly

\* the names callers give to new categories
CreateNames == {"food", "Food", "Bills"}

\* AUTOINCREMENT: one more than the largest id of the table
RECURSIVE MaxOf(_)
MaxOf(ns) ==
    IF ns = {} THEN 0
    ELSE LET n == CHOOSE x \in ns : TRUE
             m == MaxOf(ns \ {n})
         IN  IF n > m THEN n ELSE m

\* CategoryRepository.create without a sort order: MAX(sort_order) + 1, the
\* INSERT, findById of the new id
CategoryCreate ==
    /\ rcalls < MaxRepoCalls
    /\ \E name \in CreateNames :
          LET id == MaxOf(Ids(store["categories"])) + 1
              sortOrder == IF store["categories"] = {} THEN 0
                           ELSE MaxOf({r.sort_order : r \in store["categories"]}) + 1
              row == [id |-> id, name |-> name, icon |-> NullValue, color |-> NullValue,
                      sort_order |-> sortOrder, created_at |-> RepoNow,
                      updated_at |-> RepoNow, deleted_at |-> NullValue]
          IN  IF CategoryInsertable(store, row)
              THEN /\ store' = InsertRow(store, "categories", row)
                   /\ rlast' = Called("create", "categories", id, "ok")
              ELSE /\ store' = store
                   /\ rlast' = [Called("create", "categories", id, "constraint failed")
                                  EXCEPT !.id = 0]
    /\ rcalls' = rcalls + 1
    /\ RepoOnly

\* the tables of the session: two rows per entity, the second one live or
\* soft-deleted
RepoDatabases ==
    {[profiles |-> {1}, year_default |-> NullValue, profile_fk |-> TRUE,
      categories |-> {CategoryRow(1, "Food", 1, NullValue), CategoryRow(2, "Rent", 1, dc)},
      allowance_sources |-> {AllowanceRow(1, 1, 2026, 1, 1, NullValue),
                             AllowanceRow(2, 1, 2026, 1, 1, da)},
      months |-> {MonthRow(1, 1, NullValue, 1)},
      expenses |-> {ExpenseRow(1, 1, 1, 100, 1, 1, 1, NullValue),
                    ExpenseRow(2, 1, 2, 200, 0, 0, 1, de)}] :
        dc \in {NullValue, 1}, da \in {NullValue, 1}, de \in {NullValue, 1}}

InitRepo ==
    /\ store \in RepoDatabases
    /\ rlast = [op |-> "none"]
    /\ rcalls = 0
    /\ ParkedConn
    /\ ParkedMig
    /\ ParkedBackup
    /\ ParkedExpense
    /\ ParkedMonth
    /\ ParkedProfile
    /\ ParkedCalc
    /\ ParkedSync
    /\ ParkedApp

NextRepo ==
    \/ ExpenseSoftDelete
    \/ CategorySoftDelete
    \/ AllowanceSoftDelete
    \/ ExpenseUpdate
    \/ ExpenseBulkUpdatePaidStatus
    \/ CategoryUpdate
    \/ AllowanceUpdate
    \/ CategoryCreate

SpecRepo == InitRepo /\ [][NextRepo]_vars

(***************************************************************************)
(* Repositories: claims                                                    *)
(***************************************************************************)
\* the tables with the row of that id physically taken out of table t
C12_Without(d, t, id) == [d EXCEPT ![t] = {r \in @ : r.id # id}]

\* C12: right after softDelete(id) of an expense, a category or an allowance
\* source, the table holds the same ids as before and the row of that id has
\* its deletion timestamp set; findById(id) finds nothing, and every default
\* list, total and count answers as if the row were not in the table.
C12_SoftDeletedRowHidden ==
    rlast.op = "softDelete" =>
        LET t == rlast.entity
            id == rlast.id
            gone == C12_Without(store, t, id)
        IN  /\ Ids(store[t]) = Ids(rlast.before[t])
            /\ \A r \in store[t] : r.id = id => r.deleted_at # NullValue
            /\ t = "expenses" =>
                  /\ findById(store, id) = {}
                  /\ \A m \in Ids(store["months"]) :
                        /\ findByMonthId(store, m) = findByMonthId(gone, m)
                        /\ \A c \in Ids(store["categories"]) :
                              findByMonthAndCategory(store, m, c) = findByMonthAndCategory(gone, m, c)
                        /\ getTotalForMonth(store, m) = getTotalForMonth(gone, m)
                        /\ getBalanceForMonth(store, m) = getBalanceForMonth(gone, m)
                        /\ getCategoryBreakdown(store, m) = getCategoryBreakdown(gone, m)
                        /\ getCountForMonth(store, m) = getCountForMonth(gone, m)
            /\ t = "categories" =>
                  /\ CategoryFindById(store, id) = {}
                  /\ CategoryFindAll(store) = CategoryFindAll(gone)
            /\ t = "allowance_sources" =>
                  /\ AllowanceFindById(store, id) = {}
                  /\ AllowanceFindAll(store) = AllowanceFindAll(gone)
                  /\ \A p \in store["profiles"] :
                        /\ AllowanceFindAllOf(store, p) = AllowanceFindAllOf(gone, p)
                        /\ \A r \in store["allowance_sources"] :
                              /\ findAllActiveByYear(store, r.year, p) = findAllActiveByYear(gone, r.year, p)
                              /\ AllowanceTotal(store, r.year, p) = AllowanceTotal(gone, r.year, p)

\* the live, paid expense 1 has just been soft-deleted: it is still in the
\* table, and the month's total has dropped by its amount
C12_Witness ==
    /\ rlast.op = "softDelete"
    /\ rlast.entity = "expenses"
    /\ rlast.id = 1
    /\ findById(rlast.before, 1) # {}
    /\ \E r \in store["expenses"] : r.id = 1 /\ r.deleted_at # NullValue
    /\ getTotalForMonth(rlast.before, 1) = getTotalForMonth(store, 1) + 100

\* C13: an update or a softDelete whose id has no row, or only a soft-deleted
\* one, ends with a not-found error, in each of the three repositories.
C13_MissingIdIsNotFound ==
    (rlast.op \in {"update", "softDelete"}
        /\ \A r \in rlast.before[rlast.entity] : r.id = rlast.id => r.deleted_at # NullValue)
    => rlast.outcome = "not found"

\* update(id, {isPaid}) as the DTO update receives
C28_Dto(isPaid) ==
    [has |-> {"isPaid"}, categoryId |-> 1, amountCents |-> 0, note |-> 1,
     expenseDate |-> 1, isPaid |-> isPaid, isVerified |-> FALSE]

\* C28: after bulkUpdatePaidStatus(ids, isPaid) on ids of non-deleted
\* expenses, each listed expense has the is_paid and is_verified that
\* update(id, {isPaid}) would have left it with, and every other expense is
\* as it was.
C28_BulkEqualsIndividual ==
    (/\ rlast.op = "bulkUpdatePaidStatus"
     /\ \A id \in rlast.id : findById(rlast.before, id) # {}) =>
        \A r \in rlast.before["expenses"] :
            \E w \in store["expenses"] :
                /\ w.id = r.id
                /\ IF r.id \in rlast.id
                   THEN LET u == UpdatedRow(r, C28_Dto(rlast.isPaid), mapToExpense(r), RepoNow)
                        IN  w.is_paid = u.is_paid /\ w.is_verified = u.is_verified
                   ELSE w = r

\* C29: an update call that fails with "not found" has changed no row.
C29_NotFoundChangesNothing ==
    (rlast.op = "update" /\ rlast.outcome = "not found") => store = rlast.before

\* names compared with letter case ignored
C17_LowerCase(name) ==
    CASE name = "Food" -> "food"
      [] name = "Rent" -> "rent"
      [] name = "Bills" -> "bills"
      [] OTHER -> name

\* C17: no two category rows have names equal up to letter case, and a create
\* that succeeded did not bring a name equal up to case to one already stored.
C17_NamesUniqueIgnoringCase ==
    /\ \A a, b \in store["categories"] :
          a.id # b.id => C17_LowerCase(a.name) # C17_LowerCase(b.name)
    /\ (rlast.op = "create" /\ rlast.outcome = "ok") =>
          \A n \in store["categories"], x \in rlast.before["categories"] :
              n.id = rlast.id => C17_LowerCase(n.name) # C17_LowerCase(x.name)


(***************************************************************************)
(* MonthRepository.getOrCreate, called by several callers at once          *)
(***************************************************************************)
\* callers of getOrCreate whose awaits interleave
NGetters == 2

Getters == 1..NGetters

\* a step of getOrCreate leaves the other specifications' state alone
MonthOnly == UNCHANGED <<connVars, migVars, bakVars, expVars, repVars, proVars, calVars,
                         synVars, appVars>>

\* MonthRepository.findByYearMonth
findByYearMonth(d, year, month, profileId) ==
    {mapToMonth(r) : r \in {x \in d["months"] :
        x.profile_id = profileId /\ x.year = year /\ x.month = month}}

\* MonthRepository.findById
MonthFindById(d, id) == {mapToMonth(r) : r \in {x \in d["months"] : x.id = id}}

IdleGetter == [pc |-> "idle", id |-> 0, outcome |-> "none", returned |-> {}]

\* getOrCreate(year, month, profileId) is called; it waits in findByYearMonth
GetOrCreateCall(c) ==
    /\ gtasks.calls[c].pc = "idle"
    /\ gtasks' = [gtasks EXCEPT !.calls[c].pc = "find"]
    /\ UNCHANGED store
    /\ MonthOnly

\* getOrCreate, lines 84-87: the SELECT answers; a row found is returned
GetOrCreateFind(c) ==
    /\ gtasks.calls[c].pc = "find"
    /\ LET a == gtasks.args
           existing == findByYearMonth(store, a.year, a.month, a.profileId)
       IN  gtasks' = IF existing # {}
                     THEN [gtasks EXCEPT !.calls[c].pc = "done", !.calls[c].outcome = "ok",
                                         !.calls[c].returned = existing]
                     ELSE [gtasks EXCEPT !.calls[c].pc = "insert"]
    /\ UNCHANGED store
    /\ MonthOnly

\* getOrCreate, lines 89-94: the INSERT, refused by UNIQUE(profile_id, year,
\* month) if the row has been written meanwhile; the error goes to the caller
GetOrCreateInsert(c) ==
    /\ gtasks.calls[c].pc = "insert"
    /\ \E now \in UpdateNows :
          LET a == gtasks.args
              row == [id |-> MaxOf(Ids(store["months"])) + 1, profile_id |-> a.profileId,
                      year |-> a.year, month |-> a.month,
                      allowance_override_cents |-> NullValue,
                      created_at |-> now, updated_at |-> now]
          IN  IF MonthInsertable(store, row)
              THEN /\ store' = InsertRow(store, "months", row)
                   /\ gtasks' = [gtasks EXCEPT !.calls[c].pc = "reread", !.calls[c].id = row.id]
              ELSE /\ store' = store
                   /\ gtasks' = [gtasks EXCEPT !.calls[c].pc = "done",
                                    !.calls[c].outcome = "UNIQUE constraint failed"]
    /\ MonthOnly

\* getOrCreate, lines 96-100: findById of the new id
GetOrCreateReturn(c) ==
    /\ gtasks.calls[c].pc = "reread"
    /\ LET created == MonthFindById(store, gtasks.calls[c].id)
       IN  gtasks' = IF created = {}
                     THEN [gtasks EXCEPT !.calls[c].pc = "done",
                                         !.calls[c].outcome = "Failed to create month"]
                     ELSE [gtasks EXCEPT !.calls[c].pc = "done", !.calls[c].outcome = "ok",
                                         !.calls[c].returned = created]
    /\ UNCHANGED store
    /\ MonthOnly

\* the arguments all the callers pass: a stored month, a month not yet stored,
\* a month of the second profile
GetOrCreateArgs ==
    {[year |-> 2026, month |-> m, profileId |-> p] : m \in {1, 2}, p \in {1, 2}}

MonthDatabases ==
    {[profiles |-> {1, 2}, year_default |-> NullValue, profile_fk |-> TRUE,
      allowance_sources |-> {},
      categories |-> {}, months |-> ms, expenses |-> {}] : ms \in SUBSET MonthRows}

InitMonth ==
    /\ store \in MonthDatabases
    /\ gtasks \in [args : GetOrCreateArgs, calls : [Getters -> {IdleGetter}]]
    /\ ParkedConn
    /\ ParkedMig
    /\ ParkedBackup
    /\ ParkedExpense
    /\ ParkedRepo
    /\ ParkedProfile
    /\ ParkedCalc
    /\ ParkedSync
    /\ ParkedApp

NextMonth ==
    \E c \in Getters :
        \/ GetOrCreateCall(c)
        \/ GetOrCreateFind(c)
        \/ GetOrCreateInsert(c)
        \/ GetOrCreateReturn(c)

SpecMonth == InitMonth /\ [][NextMonth]_vars

\* C14: every getOrCreate call of the same (year, month, profileId) that has
\* ended has succeeded, all of them returned the same row, and the table has
\* exactly one row of that key.
C14_ConcurrentGetOrCreate ==
    \A c \in Getters :
        gtasks.calls[c].pc = "done" =>
            /\ gtasks.calls[c].outcome = "ok"
            /\ \A o \in Getters :
                  gtasks.calls[o].pc = "done" => gtasks.calls[o].returned = gtasks.calls[c].returned
            /\ Cardinality(findByYearMonth(store, gtasks.args.year, gtasks.args.month,
                                           gtasks.args.profileId)) = 1

(***************************************************************************)
(* ProfileRepository: create and delete                                    *)
(***************************************************************************)
MAX_PROFILES == 10

\* callers of delete whose awaits interleave
NDeleters == 2

Deleters == 1..NDeleters

\* profiles ever created in one run
MaxProfileId == 3

\* a step of the profile repository leaves the other specifications' state alone
ProfileOnly == UNCHANGED <<connVars, migVars, bakVars, expVars, repVars, monVars, calVars,
                           synVars, appVars>>

IdleDeleter == [pc |-> "idle", id |-> 0, count |-> 0, outcome |-> "none"]

\* DELETE FROM profiles WHERE id = ?: where months and allowance_sources were
\* created with their FOREIGN KEY ... ON DELETE CASCADE the profile's months,
\* the expenses of those months and its allowance sources go with it
DeleteProfile(d, id) ==
    LET months == {r \in d["months"] : r.profile_id # id}
    IN  IF d["profile_fk"]
        THEN [d EXCEPT !["profiles"] = @ \ {id},
                       !["months"] = months,
                       !["expenses"] = {e \in @ : e.month_id \in Ids(months)},
                       !["allowance_sources"] = {r \in @ : r.profile_id # id}]
        ELSE [d EXCEPT !["profiles"] = @ \ {id}]

\* ProfileRepository.create, the whole call: the count, the limit, the INSERT
ProfileCreate ==
    /\ \A id \in store["profiles"] : id < MaxProfileId
    /\ Cardinality(store["profiles"]) < MAX_PROFILES
    /\ store' = [store EXCEPT !["profiles"] =
                     @ \cup {IF @ = {} THEN 1 ELSE MaxOf(@) + 1}]
    /\ UNCHANGED <<ptasks, pbefore>>
    /\ ProfileOnly

\* delete(id) is called; it waits for getDatabase
ProfileDeleteCall(c) ==
    /\ ptasks[c].pc = "idle"
    /\ \E id \in 1..MaxProfileId : ptasks' = [ptasks EXCEPT ![c].pc = "count", ![c].id = id]
    /\ UNCHANGED <<store, pbefore>>
    /\ ProfileOnly

\* delete, lines 53-57: SELECT COUNT(*); with one profile or none the call
\* throws
ProfileDeleteCount(c) ==
    /\ ptasks[c].pc = "count"
    /\ LET count == Cardinality(store["profiles"])
       IN  ptasks' = IF count <= 1
                     THEN [ptasks EXCEPT ![c].pc = "done", ![c].count = count,
                                         ![c].outcome = "Cannot delete the last profile"]
                     ELSE [ptasks EXCEPT ![c].pc = "delete", ![c].count = count]
    /\ UNCHANGED <<store, pbefore>>
    /\ ProfileOnly

\* delete, line 60: the DELETE
ProfileDeleteRun(c) ==
    /\ ptasks[c].pc = "delete"
    /\ store' = DeleteProfile(store, ptasks[c].id)
    /\ pbefore' = {[id |-> ptasks[c].id, tables |-> store]}
    /\ ptasks' = [ptasks EXCEPT ![c].pc = "done", ![c].outcome = "ok"]
    /\ ProfileOnly

\* the tables of one or two profiles, each with its month, the month's
\* expense and its allowance source, under the three schema variants
ProfileDatabases ==
    {d \in Databases :
        /\ 1 \in d["profiles"]
        /\ d["categories"] = CategoryRows
        /\ d["allowance_sources"] = {r \in AllowanceRows : r.profile_id \in d["profiles"]}
        /\ d["months"] = {r \in MonthRows : r.profile_id \in d["profiles"]}
        /\ d["expenses"] = {r \in ExpenseRows : r.id # 3 /\ r.month_id \in Ids(d["months"])}}

InitProfile ==
    /\ store \in ProfileDatabases
    /\ ptasks = [c \in Deleters |-> IdleDeleter]
    /\ pbefore = {}
    /\ ParkedConn
    /\ ParkedMig
    /\ ParkedBackup
    /\ ParkedExpense
    /\ ParkedRepo
    /\ ParkedMonth
    /\ ParkedCalc
    /\ ParkedSync
    /\ ParkedApp

NextProfile ==
    \/ ProfileCreate
    \/ \E c \in Deleters :
          \/ ProfileDeleteCall(c)
          \/ ProfileDeleteCount(c)
          \/ ProfileDeleteRun(c)

SpecProfile == InitProfile /\ [][NextProfile]_vars

\* C15: the profiles table is never empty, and a delete that counted a single
\* profile has failed and removed nothing.
C15_LastProfileStays ==
    /\ store["profiles"] # {}
    /\ \A c \in Deleters :
          (ptasks[c].pc = "done" /\ ptasks[c].count = 1) =>
              ptasks[c].outcome = "Cannot delete the last profile"

\* C16: right after the DELETE of a profile, its months, the expenses of those
\* months and its allowance sources are gone, and the months, expenses and
\* allowance sources of the other profiles and all categories are as before.
C16_DeleteCascades ==
    \A b \in pbefore :
        LET own == {r \in b.tables["months"] : r.profile_id = b.id}
        IN  /\ store["months"] = b.tables["months"] \ own
            /\ store["expenses"] = {e \in b.tables["expenses"] : e.month_id \notin Ids(own)}
            /\ store["allowance_sources"] =
                  {r \in b.tables["allowance_sources"] : r.profile_id # b.id}
            /\ store["categories"] = b.tables["categories"]

(***************************************************************************)
(* CalculationService                                                      *)
(***************************************************************************)
\* the longest list of expenses or allowance sources handed to the service
MaxList == 2

\* the months of a year summary
NMonths == 3

CalcAmounts == {100, 250}

CalcDeletedAts == {NullValue, 2}

\* an Expense as the service sees it: the fields it reads
CalcExpenses == [amountCents : CalcAmounts, isPaid : BOOLEAN, deletedAt : CalcDeletedAts]

\* an AllowanceSource as the service sees it
CalcSources == [amountCents : CalcAmounts, isActive : BOOLEAN, deletedAt : CalcDeletedAts]

ListsOf(S, n) == UNION {[1..k -> S] : k \in 0..n}

\* Month | null: no record, a record without override, overrides 0 and 750
CalcMonths ==
    {{}} \cup {{[id |-> 1, year |-> 2026, month |-> 1, allowanceOverrideCents |-> o]} :
                 o \in {NullValue, 0, 750}}

Remainders == {0 - 200, 0, 200, 500}

\* the summaries loadYearData builds: one per month, in month order
CalcSummaries ==
    {[i \in 1..NMonths |-> [month |-> i, remainingCents |-> r[i]]] :
        r \in [1..NMonths -> Remainders]}

\* reduce((sum, x) => sum + x.amountCents, 0)
RECURSIVE SumAmounts(_)
SumAmounts(list) ==
    IF list = <<>> THEN 0 ELSE Head(list).amountCents + SumAmounts(Tail(list))

\* reduce((sum, m) => sum + m.remainingCents, 0)
RECURSIVE SumRemaining(_)
SumRemaining(list) ==
    IF list = <<>> THEN 0 ELSE Head(list).remainingCents + SumRemaining(Tail(list))

\* (s) => s.isActive && !s.deletedAt
ActiveSource(s) == s.isActive /\ s.deletedAt = NullValue

\* (e) => !e.deletedAt
LiveExpense(e) == e.deletedAt = NullValue

\* (m) => m.remainingCents > 0
PositiveRemaining(m) == m.remainingCents > 0

calculateTotalAllowance(sources) == SumAmounts(SelectSeq(sources, ActiveSource))

getMonthlyAllowance_Truthy(month, defaultAllowanceCents) ==
    IF /\ month # {}
       /\ (CHOOSE m \in month : TRUE).allowanceOverrideCents # NullValue
       /\ (CHOOSE m \in month : TRUE).allowanceOverrideCents # 0
    THEN (CHOOSE m \in month : TRUE).allowanceOverrideCents
    ELSE defaultAllowanceCents

\* month is empty for null; the override counts when it is neither null nor
\* undefined
getMonthlyAllowance(month, defaultAllowanceCents) ==
    IF /\ month # {}
       /\ (CHOOSE m \in month : TRUE).allowanceOverrideCents # NullValue
    THEN (CHOOSE m \in month : TRUE).allowanceOverrideCents
    ELSE defaultAllowanceCents

\* the filter looks at deletedAt only
calculateTotalSpent(expenses) == SumAmounts(SelectSeq(expenses, LiveExpense))

calculateRemaining(allowanceCents, spentCents) == allowanceCents - spentCents

\* the function declares one parameter: a second argument of a call is dropped
calculateTotalExcess(summaries) == SumRemaining(SelectSeq(summaries, PositiveRemaining))

createMonthSummary(year, month, monthRecord, defaultAllowanceCents, expenses) ==
    LET allowanceCents == getMonthlyAllowance(monthRecord, defaultAllowanceCents)
        spentCents == calculateTotalSpent(expenses)
    IN  [year |-> year,
         month |-> month,
         monthId |-> IF monthRecord = {} THEN NullValue ELSE (CHOOSE m \in monthRecord : TRUE).id,
         allowanceCents |-> allowanceCents,
         spentCents |-> spentCents,
         remainingCents |-> calculateRemaining(allowanceCents, spentCents),
         expenseCount |-> Len(SelectSeq(expenses, LiveExpense))]

\* a call of the service leaves the other specifications' state alone
CalcOnly == UNCHANGED <<connVars, migVars, dataVars, bakVars, expVars, repVars, monVars, proVars,
                        synVars, appVars>>

\* CalculationService.calculateTotalSpent(expenses)
CalculateTotalSpent ==
    /\ calcIn.fn = "calculateTotalSpent"
    /\ calcOut = {}
    /\ calcOut' = {calculateTotalSpent(calcIn.expenses)}
    /\ UNCHANGED calcIn
    /\ CalcOnly

\* CalculationService.getMonthlyAllowance(month, defaultAllowanceCents)
GetMonthlyAllowance ==
    /\ calcIn.fn = "getMonthlyAllowance"
    /\ calcOut = {}
    /\ calcOut' = {getMonthlyAllowance(calcIn.month, calcIn.defaultAllowanceCents)}
    /\ UNCHANGED calcIn
    /\ CalcOnly

\* loadYearData for one month: the default allowance from the sources, then
\* the month's summary
LoadMonthSummary ==
    /\ calcIn.fn = "createMonthSummary"
    /\ calcOut = {}
    /\ LET defaultAllowance == calculateTotalAllowance(calcIn.sources)
       IN  calcOut' = {createMonthSummary(2026, 1, calcIn.month, defaultAllowance, calcIn.expenses)}
    /\ UNCHANGED calcIn
    /\ CalcOnly

\* loadYearData, line 250: calculateTotalExcess(summaries, upToMonth)
CalculateTotalExcess ==
    /\ calcIn.fn = "calculateTotalExcess"
    /\ calcOut = {}
    /\ calcOut' = {calculateTotalExcess(calcIn.summaries)}
    /\ UNCHANGED calcIn
    /\ CalcOnly

CalcInputs ==
    [fn : {"calculateTotalSpent"}, expenses : ListsOf(CalcExpenses, MaxList)]
    \cup [fn : {"getMonthlyAllowance"}, month : CalcMonths, defaultAllowanceCents : {0, 500}]
    \cup [fn : {"createMonthSummary"}, sources : ListsOf(CalcSources, MaxList),
          month : CalcMonths, expenses : ListsOf(CalcExpenses, 1)]
    \cup [fn : {"calculateTotalExcess"}, summaries : CalcSummaries, upToMonth : 0..NMonths]

InitCalc ==
    /\ calcIn \in CalcInputs
    /\ calcOut = {}
    /\ ParkedConn
    /\ ParkedMig
    /\ ParkedData
    /\ ParkedBackup
    /\ ParkedExpense
    /\ ParkedRepo
    /\ ParkedMonth
    /\ ParkedProfile
    /\ ParkedSync
    /\ ParkedApp

NextCalc ==
    \/ CalculateTotalSpent
    \/ GetMonthlyAllowance
    \/ LoadMonthSummary
    \/ CalculateTotalExcess

SpecCalc == InitCalc /\ [][NextCalc]_vars

(***************************************************************************)
(* CalculationService: claims                                              *)
(***************************************************************************)
C18_PaidAndLive(e) == e.isPaid /\ e.deletedAt = NullValue

\* C18: calculateTotalSpent returns the sum of amountCents over the expenses
\* that are not soft-deleted and are paid; unpaid expenses add nothing.
C18_TotalSpentCountsPaidOnly ==
    calcIn.fn = "calculateTotalSpent" =>
        \A v \in calcOut : v = SumAmounts(SelectSeq(calcIn.expenses, C18_PaidAndLive))

C19_OverrideSet == calcIn.month # {} /\ \E m \in calcIn.month : m.allowanceOverrideCents # NullValue

C19_Effective(sourceSum) ==
    IF C19_OverrideSet
    THEN (CHOOSE m \in calcIn.month : TRUE).allowanceOverrideCents
    ELSE sourceSum

\* C19: the effective allowance is the override whenever one is set, 0
\* included, whatever the sources are, and without a month record or with a
\* null override it is the sum of the active, non-deleted sources.
C19_EffectiveAllowance ==
    /\ calcIn.fn = "getMonthlyAllowance" =>
          \A v \in calcOut : v = C19_Effective(calcIn.defaultAllowanceCents)
    /\ calcIn.fn = "createMonthSummary" =>
          \A s \in calcOut :
              s.allowanceCents = C19_Effective(SumAmounts(SelectSeq(calcIn.sources, ActiveSource)))

C19_Witness ==
    /\ calcIn.fn = "createMonthSummary"
    /\ \E m \in calcIn.month : m.allowanceOverrideCents = 0
    /\ SumAmounts(SelectSeq(calcIn.sources, ActiveSource)) > 0
    /\ \E s \in calcOut : s.allowanceCents = 0

C20_Counted(m) == m.remainingCents > 0 /\ m.month <= calcIn.upToMonth

\* C20: calculateTotalExcess(summaries, upToMonth) is the sum of the strictly
\* positive remainders of the summaries of months up to upToMonth, so 0 when
\* upToMonth is 0.
C20_ExcessUpToMonth ==
    calcIn.fn = "calculateTotalExcess" =>
        \A v \in calcOut : v = SumRemaining(SelectSeq(calcIn.summaries, C20_Counted))


(***************************************************************************)
(* syncDefaultCategories, and the category operations between two opens    *)
(***************************************************************************)
\* category operations of the user between the first open and the last
MaxCategoryOps == 2

DefaultNames ==
    <<"Pets", "Vehicle", "Food", "Utilities", "Entertainment", "Shopping",
      "Healthcare", "Housing", "Education", "Personal Care", "Savings", "Other">>

\* connection.ts:11-24; the icon and the color of an entry are values the
\* code only copies and compares: entry i carries 100 + i and 200 + i
DEFAULT_CATEGORIES ==
    [i \in 1..Len(DefaultNames) |->
        [name |-> DefaultNames[i], icon |-> 100 + i, color |-> 200 + i]]

\* connection.ts:116-117: the old name and the name it is changed to
LegacyNames == <<[old |-> "Food & Dining", new |-> "Food"],
                 [old |-> "Transportation", new |-> "Vehicle"]>>

\* a step of the synchronization leaves the other specifications' state alone
SyncOnly == UNCHANGED <<connVars, migVars, bakVars, expVars, repVars, monVars, proVars,
                        calVars, appVars>>

\* datetime('now') of the rows written after the first build's seed
SyncNow == 2

\* getDatabase with nothing cached (first start, restart, retry after a
\* failure): initializeDatabase reaches syncDefaultCategories
SyncOpen ==
    /\ syn.pc \in {"closed", "open", "failed"}
    /\ syn' = [syn EXCEPT !.pc = "rename", !.i = 1, !.found = store["categories"]]
    /\ UNCHANGED store
    /\ SyncOnly

\* UPDATE categories SET name = new WHERE name = old: refused by UNIQUE(name)
\* when a row carries the old name and another one the new name
SyncRename ==
    /\ syn.pc = "rename"
    /\ LET l == LegacyNames[syn.i]
           clash == /\ \E r \in store["categories"] : r.name = l.old
                    /\ \E r \in store["categories"] : r.name = l.new
       IN  IF clash
           THEN /\ syn' = [syn EXCEPT !.pc = "failed"]
                /\ UNCHANGED store
           ELSE /\ store' = [store EXCEPT !["categories"] =
                                {IF r.name = l.old THEN [r EXCEPT !.name = l.new] ELSE r :
                                    r \in @}]
                /\ syn' = IF syn.i < Len(LegacyNames)
                          THEN [syn EXCEPT !.i = @ + 1]
                          ELSE [syn EXCEPT !.pc = "upsert", !.i = 1]
    /\ SyncOnly

SyncedRow_KeepsDeleted(r, cat, i) ==
    [r EXCEPT !.icon = cat.icon, !.color = cat.color, !.sort_order = i - 1]

\* UPDATE categories SET icon = ?, color = ?, sort_order = ?, deleted_at = NULL
\* WHERE id = ?, for the entry at index i - 1 of the list
SyncedRow(r, cat, i) ==
    [r EXCEPT !.icon = cat.icon, !.color = cat.color, !.sort_order = i - 1,
              !.deleted_at = NullValue]

\* one turn of the loop, lines 120-143: the row of that name is refreshed, or
\* inserted when there is none
SyncCategory ==
    /\ syn.pc = "upsert"
    /\ LET cat == DEFAULT_CATEGORIES[syn.i]
           existing == {r \in store["categories"] : r.name = cat.name}
           row == [id |-> MaxOf(Ids(store["categories"])) + 1, name |-> cat.name,
                   icon |-> cat.icon, color |-> cat.color, sort_order |-> syn.i - 1,
                   created_at |-> SyncNow, updated_at |-> SyncNow,
                   deleted_at |-> NullValue]
       IN  store' = IF existing # {}
                    THEN [store EXCEPT !["categories"] =
                             {IF r \in existing THEN SyncedRow(r, cat, syn.i) ELSE r : r \in @}]
                    ELSE InsertRow(store, "categories", row)
    /\ syn' = IF syn.i < Len(DEFAULT_CATEGORIES)
              THEN [syn EXCEPT !.i = @ + 1]
              ELSE [syn EXCEPT !.pc = "synced"]
    /\ SyncOnly

\* initializeDatabase returns; the handle is published
SyncPublish ==
    /\ syn.pc = "synced"
    /\ syn' = [syn EXCEPT !.pc = "open"]
    /\ UNCHANGED store
    /\ SyncOnly

\* the names users give to categories
UserNames == {"Transportation", "Food & Dining", "Gym"}

\* the categories users edit and delete
UserTargets == {"Vehicle", "Gym"}

\* CategoryRepository.create({name}): refused when the name is taken
UserCreate ==
    /\ syn.pc = "open"
    /\ syn.ops < MaxCategoryOps
    /\ \E name \in UserNames :
          LET row == [id |-> MaxOf(Ids(store["categories"])) + 1, name |-> name,
                      icon |-> NullValue, color |-> NullValue,
                      sort_order |-> MaxOf({r.sort_order : r \in store["categories"]}) + 1,
                      created_at |-> SyncNow, updated_at |-> SyncNow,
                      deleted_at |-> NullValue]
          IN  store' = IF CategoryInsertable(store, row)
                       THEN InsertRow(store, "categories", row)
                       ELSE store
    /\ syn' = [syn EXCEPT !.ops = @ + 1]
    /\ SyncOnly

\* the DTOs of the users' CategoryRepository.update calls: a new name, or
\* another icon and place in the order
UserDtos ==
    {[has |-> {"name"}, name |-> "Transportation", icon |-> 7, color |-> 7, sortOrder |-> 50],
     [has |-> {"icon", "sortOrder"}, name |-> "Gym", icon |-> 7, color |-> 7, sortOrder |-> 50]}

\* CategoryRepository.update(id, dto)
UserUpdate ==
    /\ syn.pc = "open"
    /\ syn.ops < MaxCategoryOps
    /\ \E t \in store["categories"], dto \in UserDtos :
          /\ t.name \in UserTargets
          /\ LET set == [r \in store["categories"] |-> UpdatedCategory(r, dto, SyncNow)]
             IN  store' = IF CategoryUpdatable(store, set[t])
                          THEN UpdateTableWhere(store, "categories", t.id, set)
                          ELSE store
    /\ syn' = [syn EXCEPT !.ops = @ + 1]
    /\ SyncOnly

\* CategoryRepository.softDelete(id)
UserSoftDelete ==
    /\ syn.pc = "open"
    /\ syn.ops < MaxCategoryOps
    /\ \E t \in store["categories"] :
          /\ t.name \in UserTargets
          /\ store' = SoftDeleted(store, "categories", t.id, SyncNow)
    /\ syn' = [syn EXCEPT !.ops = @ + 1]
    /\ SyncOnly

\* the categories the first open finds: none, or rows seeded under the old
\* names by an earlier build, one of them soft-deleted since
SeededRows ==
    {CategoryRow(1, "Food & Dining", 1, NullValue),
     CategoryRow(2, "Transportation", 1, NullValue),
     CategoryRow(2, "Transportation", 1, 1),
     CategoryRow(3, "Pets", 1, NullValue),
     CategoryRow(3, "Pets", 1, 1)}

SyncDatabases ==
    {[profiles |-> {1}, year_default |-> NullValue, profile_fk |-> TRUE,
      categories |-> rows, allowance_sources |-> {}, months |-> {}, expenses |-> {}] :
        rows \in {x \in SUBSET SeededRows : Cardinality(Ids(x)) = Cardinality(x)}}

InitSync ==
    /\ store \in SyncDatabases
    /\ syn = [pc |-> "closed", i |-> 0, found |-> {}, ops |-> 0]
    /\ ParkedConn
    /\ ParkedMig
    /\ ParkedBackup
    /\ ParkedExpense
    /\ ParkedRepo
    /\ ParkedMonth
    /\ ParkedProfile
    /\ ParkedCalc
    /\ ParkedApp

NextSync ==
    \/ SyncOpen
    \/ SyncRename
    \/ SyncCategory
    \/ SyncPublish
    \/ UserCreate
    \/ UserUpdate
    \/ UserSoftDelete

SpecSync == InitSync /\ [][NextSync]_vars

(***************************************************************************)
(* syncDefaultCategories: claims                                           *)
(***************************************************************************)
\* C22: when syncDefaultCategories has returned, every entry of the list has
\* exactly one row of its name, not deleted, with the entry's icon and color
\* and its index as sort order, and no row carries an old name.
C22_DefaultsSynchronized ==
    syn.pc = "synced" =>
        /\ \A i \in 1..Len(DEFAULT_CATEGORIES) :
              /\ Cardinality({r \in store["categories"] : r.name = DEFAULT_CATEGORIES[i].name}) = 1
              /\ \A r \in store["categories"] :
                    r.name = DEFAULT_CATEGORIES[i].name =>
                        /\ r.deleted_at = NullValue
                        /\ r.icon = DEFAULT_CATEGORIES[i].icon
                        /\ r.color = DEFAULT_CATEGORIES[i].color
                        /\ r.sort_order = i - 1
        /\ \A r \in store["categories"], k \in 1..Len(LegacyNames) :
              r.name # LegacyNames[k].old

\* an open has returned that found Vehicle soft-deleted with an edited icon
C22_Witness ==
    /\ syn.pc = "synced"
    /\ \E r \in syn.found : r.name = "Vehicle" /\ r.deleted_at # NullValue /\ r.icon = 7

\* C30: whatever categories the users have created, renamed and deleted, the
\* next open's synchronization does not fail.
C30_SyncNeverFails == syn.pc # "failed"

(***************************************************************************)
(* useAppStore: initialize, loadYearData, switchProfile                    *)
(***************************************************************************)
\* store actions whose awaits interleave
NAppTasks == 2

AppTasks == 1..NAppTasks

AppProfiles == {1, 2}

\* a step of the store leaves the other specifications' state alone
AppOnly == UNCHANGED <<connVars, migVars, dataVars, bakVars, expVars, repVars, monVars,
                       proVars, calVars, synVars>>

\* err: a read of the task's loadYearData failed and was logged
IdleLoad == [kind |-> "none", pc |-> "idle", profileId |-> 0, at |-> {}, err |-> FALSE]

\* loadYearData up to its first await, called by task t which goes on at
\* `skipped` when the isLoading guard returns at once: the new state of the
\* store and of the task
EnterLoadYearData(t, skipped) ==
    IF app.isLoading
    THEN [app |-> app, task |-> [loads[t] EXCEPT !.pc = skipped]]
    ELSE [app |-> [app EXCEPT !.isLoading = TRUE],
          task |-> [loads[t] EXCEPT !.pc = "loading", !.profileId = app.currentProfileId]]

\* initialize, line 170: set({ isLoading: true }), then the first await
Initialize(t) ==
    /\ \A u \in AppTasks : loads[u] = IdleLoad
    /\ app' = [app EXCEPT !.isLoading = TRUE]
    /\ loads' = [loads EXCEPT ![t] = [IdleLoad EXCEPT !.kind = "initialize", !.pc = "prefs"]]
    /\ AppOnly

\* initialize, lines 172-200: categories, profiles and preferences are read;
\* a saved profile that exists becomes the current one; loadYearData is called
InitializePrefs(t) ==
    /\ loads[t].kind = "initialize"
    /\ loads[t].pc = "prefs"
    /\ LET current == IF app.savedProfileId \in AppProfiles
                      THEN app.savedProfileId ELSE app.currentProfileId
           r == EnterLoadYearData(t, "finally")
       IN  /\ app' = [r.app EXCEPT !.currentProfileId = current]
           /\ loads' = [loads EXCEPT ![t] =
                           IF r.task.pc = "loading"
                           THEN [r.task EXCEPT !.profileId = current]
                           ELSE r.task]
    /\ AppOnly

\* initialize, lines 201-203: finally set({ isLoading: false })
InitializeFinally(t) ==
    /\ loads[t].kind = "initialize"
    /\ loads[t].pc = "finally"
    /\ app' = [app EXCEPT !.isLoading = FALSE]
    /\ loads' = [loads EXCEPT ![t].pc = "done", ![t].at = {app'}]
    /\ AppOnly

\* setSelectedYear / refreshData: loadYearData is called on its own
LoadYearData(t) ==
    /\ loads[t] = IdleLoad
    /\ LET r == EnterLoadYearData(t, "done")
       IN  /\ app' = r.app
           /\ loads' = [loads EXCEPT ![t] = [r.task EXCEPT !.kind = "loadYearData"]]
    /\ AppOnly

\* loadYearData, lines 211-263: the reads have returned for the profile read
\* at line 208; the 12 summaries and the sources are stored, isLoading cleared
LoadFinish(t) ==
    /\ loads[t].pc = "loading"
    /\ app' = [app EXCEPT !.dataProfileId = loads[t].profileId,
                          !.monthSummaries = 12,
                          !.isLoading = FALSE]
    /\ loads' = [loads EXCEPT ![t].pc = IF loads[t].kind = "initialize" THEN "finally"
                                        ELSE "done",
                              ![t].at = IF loads[t].kind = "initialize" THEN {} ELSE {app'}]
    /\ AppOnly

\* loadYearData, lines 264-267: a read failed; the error is logged, isLoading
\* cleared
LoadFails(t) ==
    /\ loads[t].pc = "loading"
    /\ app' = [app EXCEPT !.isLoading = FALSE]
    /\ loads' = [loads EXCEPT ![t].pc = IF loads[t].kind = "initialize" THEN "finally"
                                        ELSE "done",
                              ![t].at = IF loads[t].kind = "initialize" THEN {} ELSE {app'},
                              ![t].err = TRUE]
    /\ AppOnly

\* switchProfile, lines 382-383: the current profile is set, the preference
\* is being saved
SwitchProfile(t) ==
    /\ loads[t] = IdleLoad
    /\ \E p \in AppProfiles :
          /\ app' = [app EXCEPT !.currentProfileId = p]
          /\ loads' = [loads EXCEPT ![t] =
                          [IdleLoad EXCEPT !.kind = "switchProfile", !.pc = "saving",
                                           !.profileId = p]]
    /\ AppOnly

\* switchProfile, lines 383-387: the preference is saved; loadYearData is
\* called
SwitchSaved(t) ==
    /\ loads[t].kind = "switchProfile"
    /\ loads[t].pc = "saving"
    /\ LET saved == [app EXCEPT !.savedProfileId = loads[t].profileId]
           r == EnterLoadYearData(t, "done")
       IN  /\ app' = [r.app EXCEPT !.savedProfileId = loads[t].profileId]
           /\ loads' = [loads EXCEPT ![t] =
                           IF r.task.pc = "done" THEN [r.task EXCEPT !.at = {saved}]
                           ELSE r.task]
    /\ AppOnly

\* the store as created, lines 102-120, and the saved profile preference
InitApp ==
    /\ app \in [isLoading : {FALSE}, currentProfileId : {1}, dataProfileId : {0},
                monthSummaries : {0}, savedProfileId : {0} \cup AppProfiles]
    /\ loads = [t \in AppTasks |-> IdleLoad]
    /\ ParkedConn
    /\ ParkedMig
    /\ ParkedData
    /\ ParkedBackup
    /\ ParkedExpense
    /\ ParkedRepo
    /\ ParkedMonth
    /\ ParkedProfile
    /\ ParkedCalc
    /\ ParkedSync

NextApp ==
    \E t \in AppTasks :
        \/ Initialize(t)
        \/ InitializePrefs(t)
        \/ InitializeFinally(t)
        \/ LoadYearData(t)
        \/ LoadFinish(t)
        \/ LoadFails(t)
        \/ SwitchProfile(t)
        \/ SwitchSaved(t)

SpecApp == InitApp /\ [][NextApp]_vars

(***************************************************************************)
(* useAppStore: claims                                                     *)
(***************************************************************************)
\* C26: when initialize has completed and no read failed, the store holds the 12 summaries of
\* the current profile and isLoading is false.
C26_InitializeLoadsYear ==
    \A t \in AppTasks :
        (loads[t].kind = "initialize" /\ loads[t].pc = "done" /\ ~loads[t].err) =>
            \A a \in loads[t].at :
                /\ a.monthSummaries = 12
                /\ a.dataProfileId = a.currentProfileId
                /\ ~a.isLoading

\* C27: when a switchProfile has completed, no store action is in flight, no
\* read failed and isLoading is false, the loaded data are those of the
\* current profile.
C27_LoadedDataOfCurrentProfile ==
    (/\ ~app.isLoading
     /\ \A t \in AppTasks : loads[t].pc \in {"idle", "done"}
     /\ \A t \in AppTasks : loads[t].kind # "initialize" /\ ~loads[t].err
     /\ \E t \in AppTasks : loads[t].kind = "switchProfile") =>
        app.dataProfileId = app.currentProfileId

(***************************************************************************)
(* Backup service: claims                                                  *)
(***************************************************************************)
\* C6: once a DELETE or an INSERT of importData has failed, importData ends
\* with an error raised to the caller and with the four data tables holding
\* exactly the rows they held before the import.
C6_FailedImportRestores ==
    (bpc.at = "done" /\ bfailed) =>
        /\ Dataset(store) = bpre
        /\ bresult \in {"ImportError", "Error"}

\* an import of a file whose expense has no month has failed at its last
\* INSERT, after the four tables of a populated database were emptied and the
\* file's category was written, and has returned
C6_Witness ==
    /\ bpc.at = "done"
    /\ bfailed
    /\ bsource = "file"
    /\ bdoc.rows["months"] = {} /\ bdoc.rows["expenses"] # {}
    /\ bresult = "ImportError"
    /\ \A t \in DataTables : bpre[t] # {}

\* the documents C7 lists: not valid JSON, no numeric version, no string
\* exportedAt, one of the four arrays missing, or a version above the
\* supported one
C7_Listed(doc) ==
    \/ ~doc.json
    \/ doc.versionType # "number"
    \/ doc.exportedAtType # "string"
    \/ \E a \in DocArrays : a \notin doc.arrays
    \/ doc.version > EXPORT_VERSION

\* C7: for such a document importData never starts its transaction, the data
\* tables stay as they were, and the call ends with an ImportError.
C7_InvalidDocumentRejected ==
    (bsource # "none" /\ C7_Listed(bdoc)) =>
        /\ bpc.at \in {"idle", "done"}
        /\ Dataset(store) = bpre
        /\ bpc.at = "done" => bresult = "ImportError"

\* a file of a newer export version was refused on a populated database
C7_Witness ==
    /\ bpc.at = "done"
    /\ bdoc.json /\ validateExportData(bdoc)
    /\ bdoc.version > EXPORT_VERSION
    /\ bresult = "ImportError"
    /\ bpre["expenses"] # {}

\* C8: importing the document exportAllData has just produced succeeds and
\* leaves in the four tables exactly the rows, with every column, that were
\* there before the export.
C8_RoundTripIdentical ==
    (bsource = "export" /\ bpc.at = "done") =>
        /\ bresult = "success"
        /\ Dataset(store) = bpre

\* C9: the document exportAllData produces has a row for every row of the four
\* tables, whatever its profile and whether or not it is soft-deleted.
C9_ExportHasEveryRow ==
    (bsource = "export" /\ bpc.at = "idle") =>
        \A t \in DataTables : Ids(store[t]) \subseteq Ids(bdoc.rows[ArrayOf(t)])

\* the table the import of the document leaves when every INSERT succeeds
C24_Imported(t) == {ImportedRow(t, x, store, bnow) : x \in bdoc.rows[ArrayOf(t)]}

\* C24: between the statements of importData, what a read on the shared
\* handle finds in the four tables is either what they held before the
\* import or what the completed import leaves.
C24_ReaderSeesWholeState ==
    bpc.at \in {"delete", "insert", "commit", "rollback"} =>
        \/ Dataset(store) = bpre
        \/ \A t \in DataTables : store[t] = C24_Imported(t)

(***************************************************************************)
(* Migration runner: claims                                                *)
(***************************************************************************)
\* C4: a second run of runMigrations, on the database the first run left,
\* changes nothing: at every await of the second run the tables, columns,
\* rows and indexes are those the first run left, the engine has raised no
\* error (no duplicate-column error, caught or not) and the run does not throw.
C4_SecondRunChangesNothing ==
    migRun = 2 => (mdb = migSnap /\ migRaised = {} /\ migPc # 7)

\* the second run has returned on a database to which the first run added the
\* profiles table with its Default row and the year and profile_id columns
C4_Witness ==
    /\ migRun = 2
    /\ migPc = 6
    /\ mdb.rows["profiles"] = {[x \in {"id", "name", "created_at", "password_hash"} |->
                                   IF x = "password_hash" THEN NullValue ELSE 1]}
    /\ \E r \in mdb.rows["allowance_sources"] : r["year"] = 2026 /\ r["profile_id"] = 1
    /\ \E r \in mdb.rows["expenses"] : r["is_paid"] = 0 /\ r["is_verified"] = 0

(***************************************************************************)
(* Storage engine: claims                                                  *)
(***************************************************************************)
\* a step in which caller c's getDatabase call is made
Calls(c) == callers[c].st = "idle" /\ callers'[c].st = "waiting"

\* a step in which the initialization behind promise p rejects
Rejects(p) == Pending(p) /\ tasks'[p].pc = "rejected"

\* a getDatabase call made with nothing cached starts a physical open
StartsFreshOpen ==
    /\ openCount' = openCount + 1
    /\ initPromise' = openCount'
    /\ tasks'[openCount'].pc = "open"

\* C1: while the first initialization has not completed, however many
\* getDatabase calls are made, openDatabaseAsync has been invoked exactly
\* once, initializeDatabase has run at most once, every caller holds the one
\* shared promise, and what each of them receives is that promise's outcome:
\* the handle of the first open, or its failure.
C1_FirstInitCoalesced ==
    /\ Pending(1) =>
          /\ openCount = 1
          /\ initRuns <= 1
          /\ \A c \in Callers : callers[c].st # "idle" => callers[c].p = 1
    /\ \A c \in Callers : callers[c].p = 1 =>
          /\ callers[c].st = "got" =>
                tasks[1].pc = "resolved" /\ callers[c].h = 1 /\ initRuns >= 1
          /\ callers[c].st = "failed" => tasks[1].pc = "rejected"

\* two callers that called during the first initialization both hold its handle
C1_Witness ==
    /\ openCount = 1
    /\ initRuns = 1
    /\ \A c \in Callers : callers[c].st = "got" /\ callers[c].p = 1 /\ callers[c].h = 1

\* C2: the step in which an initialization fails (open, pragma, table
\* creation, migration, version write or category sync) rejects the promise,
\* clears initPromise and caches no handle (database is left as it was and is
\* never the failed initialization's handle); a getDatabase call made
\* afterwards with nothing cached starts a new physical open.
C2_FailureAllowsRetry ==
    /\ [][\A p \in Promises : Rejects(p) =>
             /\ initPromise' = 0
             /\ database' = database
             /\ database' # tasks[p].db]_vars
    /\ [][\A c \in Callers :
             (Calls(c) /\ failures > 0 /\ database = 0 /\ initPromise = 0)
                 => StartsFreshOpen]_vars

\* the first initialization failed, the caller's retry opened again and succeeded
C2_Witness ==
    /\ tasks[1].pc = "rejected"
    /\ tasks[2].pc = "resolved"
    /\ database = 2
    /\ \E c \in Callers : callers[c].st = "got" /\ callers[c].h = 2

\* C3: when closeDatabase completes, database and initPromise are both
\* cleared; a getDatabase call made after that starts a new physical open, and
\* no caller is ever handed a handle whose closeDatabase had completed before
\* it called.
C3_CloseThenFreshOpen ==
    /\ [](\A c \in Callers :
             callers[c].st = "got" => callers[c].h \notin callers[c].closedAtCall)
    /\ [][(closePc = "closing" /\ closePc' = "idle") =>
             (database' = 0 /\ initPromise' = 0)]_vars
    /\ [][\A c \in Callers :
             (Calls(c) /\ closeDone # {} /\ database = 0 /\ initPromise = 0)
                 => StartsFreshOpen]_vars

\* a caller that called after handle 1 was closed holds the handle of a second open
C3_Witness ==
    \E c \in Callers :
        /\ callers[c].st = "got"
        /\ callers[c].closedAtCall = {1}
        /\ callers[c].h = 2
        /\ initRuns = 2

\* C5: every successful open leaves a stored schema version greater than or
\* equal to the version it found, whatever version the file carried.
C5_VersionNeverDecreases ==
    \A p \in Promises :
        tasks[p].pc \in {"sync", "publish", "resolved"} => ReadVersion >= tasks[p].cur

\* the initialization behind promise p was rejected by runMigrations
FailedInMigration(p) ==
    /\ tasks[p].pc = "rejected"
    /\ "readver" \in tasks[p].passed
    /\ "migrate" \notin tasks[p].passed
    /\ "writever" \notin tasks[p].passed

\* C21: when runMigrations throws, the step leaves the stored version as it
\* was, the initialization is rejected, its handle is never published, every
\* caller holding its promise receives the failure, and the stored version
\* is only ever written by an initialization whose migrations have returned.
C21_MigrationFailureAborts ==
    /\ [][\A p \in Promises :
             (tasks[p].pc = "migrate" /\ tasks'[p].pc = "rejected") =>
                 (storedVersion' = storedVersion /\ database' = database)]_vars
    /\ [](\A p \in Promises :
             tasks[p].pc = "rejected" =>
                 /\ database # tasks[p].db
                 /\ "writever" \in tasks[p].passed => "migrate" \in tasks[p].passed
                 /\ \A c \in Callers :
                       (callers[c].p = p /\ callers[c].st \in {"got", "failed"})
                           => callers[c].st = "failed")
    /\ [][\A p \in Promises :
             ("writever" \notin tasks[p].passed /\ "writever" \in tasks'[p].passed)
                 => "migrate" \in tasks[p].passed]_vars

\* the first initialization found version 4, failed in runMigrations and its
\* caller received the failure; the file still says 4
C21_Witness ==
    /\ FailedInMigration(1)
    /\ tasks[1].cur = SCHEMA_VERSION - 1
    /\ storedVersion = toString(SCHEMA_VERSION - 1)
    /\ database = 0
    /\ \E c \in Callers : callers[c].p = 1 /\ callers[c].st = "failed"

\* C25: no getDatabase call resolves with a handle on which closeAsync had
\* already been invoked when the call was made.
C25_ResolvedHandleNotClosed ==
    \A c \in Callers :
        callers[c].st = "got" => callers[c].h \notin callers[c].invokedAtCall

====
